---- MODULE Spec2Model ----
(***************************************************************************)
(* A model of the learned-correlation engine of polyarb-engine:            *)
(*   - EventGraph            (src/src/topic/graph.py)                      *)
(*   - EventEdge / Outcome   (src/src/topic/models.py)                     *)
(*   - ResolutionTracker     (src/src/topic/ingestion.py)                  *)
(*   - SignalEngine          (src/src/topic/signals.py)                    *)
(*   - BacktestEngine        (src/src/topic/backtest.py)                   *)
(*                                                                         *)
(* Conventions.  Prices, deltas, similarities, confidences and fractions   *)
(* are fixed-point numbers in hundredths (0.03 is 3, 0.5 is 50, 1.0 is     *)
(* 100).  Market ids and edge keys are strings.  Python's None for an      *)
(* optional ConditionalDelta is the record NoDelta (present = FALSE).      *)
(* Python lists are sequences; a Python dict is a function together with   *)
(* the sequence of its keys in insertion order where that order is read.   *)
(***************************************************************************)
EXTENDS Integers, Sequences, FiniteSets, TLC

VARIABLES
  edges,        \* EventGraph._edges: key -> EventEdge
  edgeKeys,     \* insertion order of the keys of _edges (dict order)
  outgoing,     \* EventGraph._outgoing: leader id -> list of keys
  incoming,     \* EventGraph._incoming: follower id -> list of keys
  graphFile,    \* the persisted graph document: list of edge dicts
  lastAdded,    \* history: (from, to) -> the edge most recently indexed with that pair
  probe,        \* the last call of a pure function: its arguments and result
  upstream,     \* the active markets the Polymarket API currently serves (a list)
  marketsCache, \* SignalEngine._markets: id -> Market
  signalLog,    \* SignalEngine._signals
  signalsFile,  \* the persisted signal document: list of signal dicts
  lastCall,     \* history: the last SignalEngine call, its argument and what it returned
  outcomes,     \* BacktestEngine.outcomes: market id -> Outcome
  hashOrder,    \* the order in which this process iterates a set of market ids
  rng,          \* the state of the module-level generator of random
  lastRun,      \* history: the last BacktestEngine.run call, its inputs, locals and result
  closedServed, \* the closed markets the API serves to fetch_closed_markets
  tracked,      \* ResolutionTracker._resolutions: market id -> MarketResolution
  resolutionsFile, \* the resolutions document on disk
  reported,     \* history: market id -> how often it was returned as a new resolution
  firstStored,  \* history: market id -> the resolution first recorded for it
  lastPoll,     \* history: the last tracker call, what it returned and what it started from
  vectorIndex,  \* a VectorIndex: its dimension, backend, stored vectors and ids
  lastAdd,      \* history: the last VectorIndex.add call, its arguments and outcome
  monitorLoop,  \* SignalMonitor.run_forever: where the loop stands and what it has done
  ingestionLoop \* IngestionRunner.run_forever: where the loop stands and what it has done

vars == <<edges, edgeKeys, outgoing, incoming, graphFile, lastAdded, probe,
          upstream, marketsCache, signalLog, signalsFile, lastCall,
          outcomes, hashOrder, rng, lastRun,
          closedServed, tracked, resolutionsFile, reported, firstStored, lastPoll,
          vectorIndex, lastAdd, monitorLoop, ingestionLoop>>

graphVars == <<edges, edgeKeys, outgoing, incoming, graphFile, lastAdded>>

signalVars == <<upstream, marketsCache, signalLog, signalsFile, lastCall>>

backtestVars == <<outcomes, hashOrder, rng, lastRun>>

trackerVars == <<closedServed, tracked, resolutionsFile, reported, firstStored, lastPoll>>

indexVars == <<vectorIndex, lastAdd>>

loopVars == <<monitorLoop, ingestionLoop>>

(***************************************************************************)
(* Generic helpers                                                         *)
(***************************************************************************)
Range(s) == {s[i] : i \in 1..Len(s)}

InSeq(x, s) == \E i \in 1..Len(s) : s[i] = x

EmptyDict == [k \in {} |-> 0]

DictGet(d, k, default) == IF k \in DOMAIN d THEN d[k] ELSE default

DictSet(d, k, v) == [x \in DOMAIN d \cup {k} |-> IF x = k THEN v ELSE d[x]]

Abs(n) == IF n < 0 THEN -n ELSE n

\* Python's None / a value, where a function returns one or the other.
None == [some |-> FALSE]

Some(v) == [some |-> TRUE, val |-> v]

(***************************************************************************)
(* models.py                                                               *)
(***************************************************************************)
YES == "YES"

NO == "NO"

Outcome == {YES, NO}

NoDelta == [present |-> FALSE, avg_delta |-> 0, avg_lag_seconds |-> 0, sample_count |-> 0]

ConditionalDelta(avg_delta, avg_lag_seconds, sample_count) ==
  [present |-> TRUE, avg_delta |-> avg_delta,
   avg_lag_seconds |-> avg_lag_seconds, sample_count |-> sample_count]

EventEdge(from_id, to_id, similarity, yes_delta, no_delta, confidence) ==
  [from_market_id |-> from_id, to_market_id |-> to_id, similarity |-> similarity,
   yes_delta |-> yes_delta, no_delta |-> no_delta, confidence |-> confidence]

get_delta(edge, outcome) == IF outcome = YES THEN edge.yes_delta ELSE edge.no_delta

\* One pass of the loop body of is_valid over a delta: "continue" for None,
\* "false" for an early return False, "next" when the delta passes.
is_valid_step(delta, min_samples, min_delta, min_lag) ==
  IF ~delta.present THEN "continue"
  ELSE IF delta.sample_count < min_samples THEN "false"
  ELSE IF Abs(delta.avg_delta) < min_delta THEN "false"
  ELSE IF delta.avg_lag_seconds < min_lag THEN "false"
  ELSE "next"

\* Mutant of is_valid: the final "at least one delta" test is dropped.
is_valid_no_final_test(edge, min_samples, min_delta, min_lag) ==
  /\ is_valid_step(edge.yes_delta, min_samples, min_delta, min_lag) # "false"
  /\ is_valid_step(edge.no_delta, min_samples, min_delta, min_lag) # "false"

is_valid(edge, min_samples, min_delta, min_lag) ==
  IF is_valid_step(edge.yes_delta, min_samples, min_delta, min_lag) = "false" THEN FALSE
  ELSE IF is_valid_step(edge.no_delta, min_samples, min_delta, min_lag) = "false" THEN FALSE
  ELSE edge.yes_delta.present \/ edge.no_delta.present

\* EventEdge.to_dict / from_dict: field by field; a delta that is None is
\* written as null and read back as None.
edge_to_dict(edge) ==
  [from_market_id |-> edge.from_market_id, to_market_id |-> edge.to_market_id,
   similarity |-> edge.similarity,
   yes_delta |-> IF edge.yes_delta.present THEN edge.yes_delta ELSE NoDelta,
   no_delta |-> IF edge.no_delta.present THEN edge.no_delta ELSE NoDelta,
   confidence |-> edge.confidence]

edge_from_dict(data) ==
  EventEdge(data.from_market_id, data.to_market_id, data.similarity,
            IF data.yes_delta.present THEN data.yes_delta ELSE NoDelta,
            IF data.no_delta.present THEN data.no_delta ELSE NoDelta,
            data.confidence)

(***************************************************************************)
(* client.py: Market;  ingestion.py and graph.py: the derived Outcome      *)
(***************************************************************************)
\* A Market as the code below reads it.  end_date is the upstream string.
Market(id, prices, volume, liquidity, end_date) ==
  [id |-> id, prices |-> prices, volume |-> volume, liquidity |-> liquidity,
   end_date |-> end_date]

\* Market.yes_price: prices[0] if prices else 0.0
yes_price(market) == IF market.prices # <<>> THEN market.prices[1] ELSE 0

\* Market.no_price: prices[1] if len(prices) > 1 else 1.0 - yes_price
no_price(market) ==
  IF Len(market.prices) > 1 THEN market.prices[2] ELSE 100 - yes_price(market)

\* datetime.fromisoformat(end_date.replace("Z", "+00:00")): the strings that
\* parse, with the instant each denotes; any other string raises ValueError.
IsoInstants ==
  [x \in {"2024-12-31T23:59:59Z", "2025-01-01T00:00:00+00:00"} |->
     IF x = "2024-12-31T23:59:59Z" THEN 1 ELSE 2]

\* Mutant of the outcome rule: the boundary 0.5 resolves to YES.
outcome_of_price_inclusive(price) == IF price >= 50 THEN YES ELSE NO

\* Outcome.YES if yes_price > 0.5 else Outcome.NO  (ingestion.py line 196)
outcome_of_price(price) == IF price > 50 THEN YES ELSE NO

\* ResolutionTracker._market_to_resolution.  With an empty end_date the code
\* evaluates datetime.now(timezone.utc); ingestion.py does not import timezone,
\* so that raises NameError, which the except clause turns into None, as it
\* does the ValueError of an unparseable end_date.
_market_to_resolution(market) ==
  LET outcome == outcome_of_price(yes_price(market))
  IN IF market.end_date = "" THEN None
     ELSE IF market.end_date \notin DOMAIN IsoInstants THEN None
     ELSE Some([market_id |-> market.id, resolved_at |-> IsoInstants[market.end_date],
                outcome |-> outcome])

\* Mutant of get_outcome: the comparison is reversed.
get_outcome_reversed(market) == IF yes_price(market) < 50 THEN YES ELSE NO

\* build_historical_edges.get_outcome  (graph.py lines 242-243)
get_outcome(market) == IF yes_price(market) > 50 THEN YES ELSE NO

(***************************************************************************)
(* graph.py: EventGraph                                                    *)
(***************************************************************************)
\* The in-memory graph as one value, for the operators below.
Graph(e, k, o, i) == [edges |-> e, keys |-> k, outgoing |-> o, incoming |-> i]

EmptyGraph == Graph(EmptyDict, <<>>, EmptyDict, EmptyDict)

ThisGraph == Graph(edges, edgeKeys, outgoing, incoming)

\* Mutant of _key: the separator is left out.
key_no_separator(from_id, to_id) == from_id \o to_id

_key(from_id, to_id) == from_id \o "::" \o to_id

\* The "if id not in index / if key not in index[id]: append" step.
index_append(index, id, key) ==
  LET cur == DictGet(index, id, <<>>)
  IN DictSet(index, id, IF InSeq(key, cur) THEN cur ELSE Append(cur, key))

\* Mutant of index_append: the key is appended without the membership test.
index_append_always(index, id, key) ==
  DictSet(index, id, Append(DictGet(index, id, <<>>), key))

\* Mutant of _index_edge: an edge whose key is already stored is not replaced.
index_edge_first_wins(g, edge) ==
  LET key == _key(edge.from_market_id, edge.to_market_id)
  IN IF key \in DOMAIN g.edges THEN g
     ELSE Graph(DictSet(g.edges, key, edge), Append(g.keys, key),
                index_append(g.outgoing, edge.from_market_id, key),
                index_append(g.incoming, edge.to_market_id, key))

_index_edge(g, edge) ==
  LET key == _key(edge.from_market_id, edge.to_market_id)
  IN Graph(DictSet(g.edges, key, edge),
           IF key \in DOMAIN g.edges THEN g.keys ELSE Append(g.keys, key),
           index_append(g.outgoing, edge.from_market_id, key),
           index_append(g.incoming, edge.to_market_id, key))

\* for edge in batch: self._index_edge(edge)
RECURSIVE index_all(_, _)
index_all(g, batch) ==
  IF batch = <<>> THEN g ELSE index_all(_index_edge(g, Head(batch)), Tail(batch))

\* list(self._edges.values()): the stored edges in dict order.
get_all(g) == [i \in 1..Len(g.keys) |-> g.edges[g.keys[i]]]

\* The "edges" list written by _save.
save_doc(g) == [i \in 1..Len(g.keys) |-> edge_to_dict(g.edges[g.keys[i]])]

\* _load: every edge dict of the document is rebuilt and indexed, in order.
load_doc(doc) == index_all(EmptyGraph, [i \in 1..Len(doc) |-> edge_from_dict(doc[i])])

get_edge(g, from_id, to_id) ==
  LET key == _key(from_id, to_id)
  IN IF key \in DOMAIN g.edges THEN Some(g.edges[key]) ELSE None

keys_to_edges(g, keys) ==
  LET kept == SelectSeq(keys, LAMBDA k : k \in DOMAIN g.edges)
  IN [i \in 1..Len(kept) |-> g.edges[kept[i]]]

\* Mutant of get_outgoing: every stored edge, whoever leads it.
get_outgoing_any(g, leader_id) == get_all(g)

get_outgoing(g, leader_id) == keys_to_edges(g, DictGet(g.outgoing, leader_id, <<>>))

get_incoming(g, follower_id) == keys_to_edges(g, DictGet(g.incoming, follower_id, <<>>))

get_valid(g, min_samples, min_delta, min_lag) ==
  SelectSeq(get_all(g), LAMBDA e : is_valid(e, min_samples, min_delta, min_lag))

\* History: the edge most recently passed to _index_edge for each (from, to) pair.
RECURSIVE note_added(_, _)
note_added(hist, batch) ==
  IF batch = <<>> THEN hist
  ELSE note_added(DictSet(hist, <<Head(batch).from_market_id, Head(batch).to_market_id>>,
                          Head(batch)),
                  Tail(batch))

(***************************************************************************)
(* Bounds and inputs of the EventGraph specification                       *)
(***************************************************************************)
MaxBatch == 2

\* Market ids are arbitrary strings; "a::b" and "b::c" contain the key separator.
GraphPairs == {<<"a", "c">>, <<"a", "b::c">>, <<"a::b", "c">>}

GraphIds == {p[1] : p \in GraphPairs} \cup {p[2] : p \in GraphPairs}

GraphSims == {80, 90}

GraphEdgeInputs ==
  {EventEdge(p[1], p[2], s, NoDelta, NoDelta, s) : p \in GraphPairs, s \in GraphSims}

SeqsUpTo(S, n) == UNION {[1..k -> S] : k \in 0..n}

GraphBatches == SeqsUpTo(GraphEdgeInputs, MaxBatch)

SetGraph(g) ==
  /\ edges' = g.edges
  /\ edgeKeys' = g.keys
  /\ outgoing' = g.outgoing
  /\ incoming' = g.incoming

(***************************************************************************)
(* EventGraph operations                                                   *)
(***************************************************************************)
GraphInit ==
  /\ edges = EmptyDict
  /\ edgeKeys = <<>>
  /\ outgoing = EmptyDict
  /\ incoming = EmptyDict
  /\ graphFile = <<>>
  /\ lastAdded = EmptyDict

\* add_edge(edge, save).  An unsaved add is taken from a state whose document
\* is current, so at most one edge is pending between two saves.
add_edge ==
  \E edge \in GraphEdgeInputs, save \in BOOLEAN :
    LET g == _index_edge(ThisGraph, edge)
    IN /\ save \/ graphFile = save_doc(ThisGraph)
       /\ SetGraph(g)
       /\ graphFile' = IF save THEN save_doc(g) ELSE graphFile
       /\ lastAdded' = note_added(lastAdded, <<edge>>)
       /\ UNCHANGED <<indexVars, loopVars, probe, signalVars, backtestVars, trackerVars>>

\* add_edges(edges)
add_edges ==
  \E batch \in GraphBatches :
    LET g == index_all(ThisGraph, batch)
    IN /\ SetGraph(g)
       /\ graphFile' = save_doc(g)
       /\ lastAdded' = note_added(lastAdded, batch)
       /\ UNCHANGED <<indexVars, loopVars, probe, signalVars, backtestVars, trackerVars>>

\* clear()
clear ==
  /\ SetGraph(EmptyGraph)
  /\ graphFile' = save_doc(EmptyGraph)
  /\ lastAdded' = EmptyDict
  /\ UNCHANGED <<indexVars, loopVars, probe, signalVars, backtestVars, trackerVars>>

\* EventGraph(filepath): a new graph object loaded from the persisted document.
load ==
  LET g == load_doc(graphFile)
  IN /\ SetGraph(g)
     /\ lastAdded' = note_added(EmptyDict, get_all(g))
     /\ UNCHANGED <<indexVars, loopVars, graphFile, probe, signalVars, backtestVars, trackerVars>>

ProbeIdle == [op |-> "none"]

NoCall == [op |-> "none"]

\* The state of a ResolutionTracker that is not part of the specification at hand.
TrackerIdle ==
  /\ closedServed = <<>>
  /\ tracked = EmptyDict
  /\ resolutionsFile = <<>>
  /\ reported = EmptyDict
  /\ firstStored = EmptyDict
  /\ lastPoll = NoCall

\* The state of a BacktestEngine that is not part of the specification at hand.
BacktestIdle ==
  /\ outcomes = EmptyDict
  /\ hashOrder = <<>>
  /\ rng = 0
  /\ lastRun = NoCall

\* The state of a SignalEngine that is not part of the specification at hand.
SignalsIdle ==
  /\ upstream = <<>>
  /\ marketsCache = EmptyDict
  /\ signalLog = <<>>
  /\ signalsFile = <<>>
  /\ lastCall = NoCall

\* No VectorIndex and no loop: the state of the parts that are not part of
\* the specification at hand.
IndexIdle == vectorIndex = NoCall /\ lastAdd = NoCall

LoopIdle == monitorLoop = NoCall /\ ingestionLoop = NoCall

Init == GraphInit /\ probe = ProbeIdle /\ SignalsIdle /\ BacktestIdle /\ TrackerIdle /\ IndexIdle /\ LoopIdle

Next == add_edge \/ add_edges \/ clear \/ load

Spec == Init /\ [][Next]_vars

(***************************************************************************)
(* Pure functions of models.py, ingestion.py and graph.py: each action     *)
(* calls one of them on inputs drawn from the sets below and records the   *)
(* call in probe.                                                          *)
(***************************************************************************)
ProbeDeltas ==
  {NoDelta} \cup {ConditionalDelta(a, l, n) : a \in {-5, 2, 5}, l \in {30, 120}, n \in {0, 10}}

ProbeEdges == {EventEdge("123", "456", 90, y, n, 85) : y \in ProbeDeltas, n \in ProbeDeltas}

ProbePrices == {<<>>, <<0, 100>>, <<30, 70>>, <<49, 51>>, <<50, 50>>, <<51, 49>>, <<70, 30>>, <<100, 0>>}

ProbeEndDates == {"", "soon", "2024-12-31T23:59:59Z", "2025-01-01T00:00:00+00:00"}

ProbeMarkets == {Market("test123", p, 1000, 500, d) : p \in ProbePrices, d \in ProbeEndDates}

call_is_valid ==
  \E edge \in ProbeEdges, min_samples \in {1, 20}, min_delta \in {3, 10}, min_lag \in {60, 200} :
    /\ probe' = [op |-> "is_valid", edge |-> edge, min_samples |-> min_samples,
                 min_delta |-> min_delta, min_lag |-> min_lag,
                 result |-> is_valid(edge, min_samples, min_delta, min_lag)]
    /\ UNCHANGED <<indexVars, loopVars, graphVars, signalVars, backtestVars, trackerVars>>

call_market_to_resolution ==
  \E market \in ProbeMarkets :
    /\ probe' = [op |-> "_market_to_resolution", market |-> market,
                 result |-> _market_to_resolution(market)]
    /\ UNCHANGED <<indexVars, loopVars, graphVars, signalVars, backtestVars, trackerVars>>

call_get_outcome ==
  \E market \in ProbeMarkets :
    /\ probe' = [op |-> "get_outcome", market |-> market, result |-> get_outcome(market)]
    /\ UNCHANGED <<indexVars, loopVars, graphVars, signalVars, backtestVars, trackerVars>>

NextModels == call_is_valid \/ call_market_to_resolution \/ call_get_outcome

SpecModels == Init /\ [][NextModels]_vars

\* The non-null deltas of an edge.
DeltasOf(edge) == {d \in {edge.yes_delta, edge.no_delta} : d.present}

\* C3: is_valid(min_samples, min_delta, min_lag) is true iff at least one of
\* yes_delta / no_delta is non-null and every non-null delta has
\* sample_count >= min_samples, |avg_delta| >= min_delta and
\* avg_lag_seconds >= min_lag; an edge with both deltas null is never valid.
C3_IsValid ==
  probe.op = "is_valid" =>
    /\ probe.result =
         (/\ DeltasOf(probe.edge) # {}
          /\ \A d \in DeltasOf(probe.edge) :
               /\ d.sample_count >= probe.min_samples
               /\ Abs(d.avg_delta) >= probe.min_delta
               /\ d.avg_lag_seconds >= probe.min_lag)
    /\ (DeltasOf(probe.edge) = {} => probe.result = FALSE)

\* C3 witness: the edge of the unit test (one delta, the other null) is valid
\* under the default thresholds.
C3_Witness ==
  /\ probe.op = "is_valid"
  /\ probe.edge.yes_delta = ConditionalDelta(5, 120, 10)
  /\ ~probe.edge.no_delta.present
  /\ probe.min_samples = 1 /\ probe.min_delta = 3 /\ probe.min_lag = 60
  /\ probe.result = TRUE

\* C4: the derived Outcome of a market with final yes_price p is YES iff
\* p > 0.5, otherwise NO (exactly 0.5 resolves to NO), both where the
\* resolution tracker converts a market to a resolution and where the
\* historical graph builder derives market outcomes.
C4_OutcomeRule ==
  /\ (probe.op = "_market_to_resolution" /\ probe.result.some) =>
       /\ (probe.result.val.outcome = YES) = (yes_price(probe.market) > 50)
       /\ (probe.result.val.outcome = NO) = (yes_price(probe.market) <= 50)
  /\ probe.op = "get_outcome" =>
       /\ (probe.result = YES) = (yes_price(probe.market) > 50)
       /\ (probe.result = NO) = (yes_price(probe.market) <= 50)

\* C4 witness: the tracker has converted a market priced exactly 0.5, to NO.
C4_Witness ==
  /\ probe.op = "_market_to_resolution"
  /\ probe.result.some
  /\ yes_price(probe.market) = 50
  /\ probe.result.val.outcome = NO

(***************************************************************************)
(* Claims about EventGraph (checked under Spec)                            *)
(***************************************************************************)
PairOf(edge) == <<edge.from_market_id, edge.to_market_id>>

StoredWithPair(p) == {i \in 1..Len(edgeKeys) : PairOf(edges[edgeKeys[i]]) = p}

\* C1: the graph holds at most one edge per ordered (from, to) pair, and the
\* edge stored for a pair is the one most recently added with that pair
\* (latest wins, no merge): once a pair has been added its key is stored, the
\* edge list holds at most one edge with that pair, and every stored edge
\* equals the last edge added with its own pair.
C1_LatestWins ==
  /\ Len(edgeKeys) = Cardinality(DOMAIN edges)
  /\ \A p \in DOMAIN lastAdded :
       /\ _key(p[1], p[2]) \in DOMAIN edges
       /\ Cardinality(StoredWithPair(p)) <= 1
  /\ \A k \in DOMAIN edges :
       /\ PairOf(edges[k]) \in DOMAIN lastAdded
       /\ edges[k] = lastAdded[PairOf(edges[k])]

\* C1 witness: a pair was added twice with different attributes: the document
\* still holds the first edge, the graph holds the second, exactly once.
C1_Witness ==
  \E k \in DOMAIN edges : \E i \in 1..Len(graphFile) :
    /\ PairOf(graphFile[i]) = PairOf(edges[k])
    /\ graphFile[i].similarity # edges[k].similarity
    /\ Cardinality(StoredWithPair(PairOf(edges[k]))) = 1
    /\ get_edge(ThisGraph, edges[k].from_market_id, edges[k].to_market_id) = Some(edges[k])

StoredFrom(m) == {edges[k] : k \in {x \in DOMAIN edges : edges[x].from_market_id = m}}

StoredTo(m) == {edges[k] : k \in {x \in DOMAIN edges : edges[x].to_market_id = m}}

ExactlyOnce(list, set) == Range(list) = set /\ Len(list) = Cardinality(set)

\* C2: the outgoing and incoming indices never drift from the edge map: for
\* every market id m, get_outgoing(m) returns exactly the stored edges whose
\* from_market_id is m, each once, and get_incoming(m) exactly the stored
\* edges whose to_market_id is m, each once.
C2_IndicesMatchEdges ==
  \A m \in GraphIds :
    /\ ExactlyOnce(get_outgoing(ThisGraph, m), StoredFrom(m))
    /\ ExactlyOnce(get_incoming(ThisGraph, m), StoredTo(m))

(***************************************************************************)
(* signals.py: SignalEngine                                                *)
(***************************************************************************)
MIN_MISPRICING == 3

MIN_CONFIDENCE == 50

MIN_LIQUIDITY == 5000

\* fetch_markets' default min_volume (client.py line 53).
MIN_VOLUME == 1000

\* A JSON scalar as json.load returns it: its kind and its text.
JsonString(text) == [kind |-> "string", text |-> text]

JsonBool(b) == [kind |-> "bool", text |-> IF b THEN "true" ELSE "false"]

JsonNumber(text) == [kind |-> "number", text |-> text]

\* Outcome.<member>.value: YES = True, NO = False.
outcome_value(o) == JsonBool(o = YES)

\* Python's ==: True == 1 and False == 0, a str equals no bool.
py_equal(a, b) ==
  LET truth(v) == IF v.kind = "bool" THEN (IF v.text = "true" THEN "1" ELSE "0") ELSE v.text
  IN  IF a.kind = "string" \/ b.kind = "string"
        THEN a = b
        ELSE truth(a) = truth(b)

\* Outcome(val): the member whose value equals val, ValueError (None) if
\* there is none.
outcome_by_value(val) ==
  IF py_equal(val, outcome_value(YES)) THEN Some(YES)
  ELSE IF py_equal(val, outcome_value(NO)) THEN Some(NO)
  ELSE None

\* Signal.  confidence is edge.confidence * (sample_count / 10), kept here in
\* thousandths (edge.confidence * sample_count) so that it stays an integer.
Signal(market_id, direction, expected_move, current_price, expected_price, confidence, source_edge, leader_market_id, leader_outcome) ==
  [market_id |-> market_id, direction |-> direction, expected_move |-> expected_move,
   current_price |-> current_price, expected_price |-> expected_price,
   confidence |-> confidence, source_edge |-> source_edge,
   leader_market_id |-> leader_market_id, leader_outcome |-> leader_outcome]

\* Signal.to_dict / Signal.from_dict, field by field; leader_outcome is written
\* as the value of the member and read back with Outcome(value).
signal_to_dict(sig) ==
  [market_id |-> sig.market_id, direction |-> sig.direction,
   expected_move |-> sig.expected_move, current_price |-> sig.current_price,
   expected_price |-> sig.expected_price, confidence |-> sig.confidence,
   source_edge |-> edge_to_dict(sig.source_edge),
   leader_market_id |-> sig.leader_market_id, leader_outcome |-> outcome_value(sig.leader_outcome)]

signal_from_dict(data) ==
  Signal(data.market_id, data.direction, data.expected_move, data.current_price,
         data.expected_price, data.confidence, edge_from_dict(data.source_edge),
         data.leader_market_id, outcome_by_value(data.leader_outcome).val)

\* PolymarketClient.fetch_markets(min_liquidity, min_volume) on the markets
\* the API serves: the ones that pass both filters, in order.
fetch_markets(served, min_liquidity, min_volume) ==
  SelectSeq(served, LAMBDA m : m.liquidity >= min_liquidity /\ m.volume >= min_volume)

\* {m.id: m for m in markets}
RECURSIVE by_id(_, _)
by_id(cache, markets) ==
  IF markets = <<>> THEN cache
  ELSE by_id(DictSet(cache, Head(markets).id, Head(markets)), Tail(markets))

\* The engine state a call threads through: the cache and the number of
\* upstream fetches made so far in the call.
Engine(cache, fetches) == [cache |-> cache, fetches |-> fetches]

\* refresh_markets: one upstream fetch; the cache is replaced, never merged.
refreshed(eng) ==
  Engine(by_id(EmptyDict, fetch_markets(upstream, MIN_LIQUIDITY, MIN_VOLUME)),
         eng.fetches + 1)

\* get_price: the engine after the call (a miss refreshes the cache first).
after_get_price(eng, market_id) ==
  IF market_id \notin DOMAIN eng.cache THEN refreshed(eng) ELSE eng

\* get_liquidity: market.liquidity if market else 0.0
get_liquidity(eng, market_id) ==
  IF market_id \in DOMAIN eng.cache THEN eng.cache[market_id].liquidity ELSE 0

\* Mutant of expected_price_of: the sum is not clamped.
expected_price_unclamped(current_price, avg_delta) == current_price + avg_delta

\* max(0.0, min(1.0, current_price + delta.avg_delta))
expected_price_of(current_price, avg_delta) ==
  LET raw == current_price + avg_delta
      capped == IF raw < 100 THEN raw ELSE 100
  IN IF capped > 0 THEN capped ELSE 0

\* Mutant of below_threshold: every mispricing passes.
below_threshold_never(mispricing) == FALSE

\* abs(mispricing) < self.MIN_MISPRICING
below_threshold(mispricing) == Abs(mispricing) < MIN_MISPRICING

\* Mutant of confidence_too_low: no edge is rejected for its confidence.
confidence_too_low_never(edge) == FALSE

\* edge.confidence < self.MIN_CONFIDENCE
confidence_too_low(edge) == edge.confidence < MIN_CONFIDENCE

\* Mutant of direction_of: every signal is a BUY.
direction_of_always_buy(mispricing) == "BUY"

\* "BUY" if mispricing > 0 else "SELL"
direction_of(mispricing) == IF mispricing > 0 THEN "BUY" ELSE "SELL"

\* _generate_signal(resolution, edge) from engine state eng: the engine
\* after the call and the signal or None.
_generate_signal(eng, resolution, edge) ==
  LET delta == get_delta(edge, resolution.outcome)
      eng2 == after_get_price(eng, edge.to_market_id)
      cached == edge.to_market_id \in DOMAIN eng2.cache
      current_price == yes_price(eng2.cache[edge.to_market_id])
      expected_price == expected_price_of(current_price, delta.avg_delta)
      mispricing == expected_price - current_price
  IN IF confidence_too_low(edge) THEN [eng |-> eng, signal |-> None]
     ELSE IF ~delta.present THEN [eng |-> eng, signal |-> None]
     ELSE IF ~cached THEN [eng |-> eng2, signal |-> None]
     ELSE IF get_liquidity(eng2, edge.to_market_id) < MIN_LIQUIDITY
       THEN [eng |-> eng2, signal |-> None]
     ELSE IF below_threshold(mispricing) THEN [eng |-> eng2, signal |-> None]
     ELSE [eng |-> eng2,
           signal |-> Some(Signal(edge.to_market_id,
                                  direction_of(mispricing),
                                  mispricing, current_price, expected_price,
                                  edge.confidence * delta.sample_count, edge,
                                  resolution.market_id, resolution.outcome))]

\* The loop of on_resolution over the outgoing edges: the engine after it and
\* the signals generated, in order.
RECURSIVE generate_all(_, _, _, _)
generate_all(eng, resolution, edge_list, signals) ==
  IF edge_list = <<>> THEN [eng |-> eng, signals |-> signals]
  ELSE LET r == _generate_signal(eng, resolution, Head(edge_list))
       IN generate_all(r.eng, resolution, Tail(edge_list),
                       IF r.signal.some THEN Append(signals, r.signal.val) ELSE signals)

\* Mutant of append_signals: the log is replaced by the new signals.
append_signals_replace(log, signals) == signals

\* self._signals.append(signal), for every signal of the call in order.
append_signals(log, signals) == log \o signals

\* _save_signals
save_signals(log) == [i \in 1..Len(log) |-> signal_to_dict(log[i])]

\* Mutant of load_signals: the document is not read.
load_signals_nothing(doc) == <<>>

\* _load_signals
load_signals(doc) == [i \in 1..Len(doc) |-> signal_from_dict(doc[i])]

(***************************************************************************)
(* Bounds and inputs of the SignalEngine specification                     *)
(***************************************************************************)
MaxSignals == 2

SigLeader == "leader123"

SigFollower == "follower456"

SigFollower2 == "follower789"

\* The edges the graph may hold for each follower; <<>> for no edge.
SigEdgeChoices1 ==
  {<<>>} \cup
  {<<EventEdge(SigLeader, SigFollower, 90, y, n, c)>> :
     y \in {NoDelta, ConditionalDelta(15, 3600, 5), ConditionalDelta(1, 3600, 5),
            ConditionalDelta(60, 3600, 5)},
     n \in {NoDelta, ConditionalDelta(-60, 3600, 5)},
     c \in {40, 85}}

SigEdgeChoices2 ==
  {<<>>, <<EventEdge(SigLeader, SigFollower2, 80, ConditionalDelta(3, 3600, 10),
                     ConditionalDelta(-2, 3600, 10), 80)>>}

\* What the API may serve for a follower; <<>> when it serves nothing.
ServedChoices(id) ==
  {<<>>} \cup {<<Market(id, <<p, 100 - p>>, 10000, l, "2024-12-31")>> :
                 p \in {50, 90}, l \in {500, 10000}}

SigResolutions ==
  {[market_id |-> m, resolved_at |-> 1, outcome |-> o] : m \in {SigLeader, "other"}, o \in Outcome}

\* What the tracker may report in one poll: at most one new resolution for
\* each market.
NewResolutionLists ==
  {<<>>} \cup {<<r>> : r \in SigResolutions}
    \cup {pair \in SigResolutions \X SigResolutions : pair[1].market_id # pair[2].market_id}

(***************************************************************************)
(* SignalEngine operations                                                 *)
(***************************************************************************)
\* A graph loaded from a document with the chosen edges, a fresh engine with
\* no signal file, and the markets the API serves.
InitSignals ==
  /\ \E e1 \in SigEdgeChoices1, e2 \in SigEdgeChoices2 :
       LET g == index_all(EmptyGraph, e1 \o e2)
       IN /\ edges = g.edges
          /\ edgeKeys = g.keys
          /\ outgoing = g.outgoing
          /\ incoming = g.incoming
          /\ graphFile = save_doc(g)
          /\ lastAdded = note_added(EmptyDict, e1 \o e2)
  /\ probe = ProbeIdle
  /\ IndexIdle
  /\ LoopIdle
  /\ \E s1 \in ServedChoices(SigFollower), s2 \in ServedChoices(SigFollower2) :
       upstream = s1 \o s2
  /\ marketsCache = EmptyDict
  /\ signalLog = <<>>
  /\ signalsFile = <<>>
  /\ lastCall = NoCall
  /\ BacktestIdle
  /\ TrackerIdle

\* refresh_markets()
refresh_markets ==
  /\ marketsCache' = refreshed(Engine(marketsCache, 0)).cache
  /\ lastCall' = [op |-> "refresh_markets", fetches |-> 1]
  /\ UNCHANGED <<indexVars, loopVars, graphVars, probe, backtestVars, trackerVars, upstream, signalLog, signalsFile>>

\* Mutant of graph_after_reads: the edges handed out are taken from the graph.
graph_after_reads_cleared(g, edge_list) == EmptyGraph

\* The graph after a caller has gone through a list the graph returned
\* (get_outgoing, get_valid): the list holds the stored EventEdge objects
\* themselves, and on_resolution, _generate_signal, run and _make_prediction
\* only read their attributes.
graph_after_reads(g, edge_list) == g

\* on_resolution(resolution)
on_resolution ==
  \E resolution \in SigResolutions :
    LET edge_list == get_outgoing(ThisGraph, resolution.market_id)
        r == generate_all(Engine(marketsCache, 0), resolution, edge_list, <<>>)
        signals == IF edge_list = <<>> THEN <<>> ELSE r.signals
    IN /\ Len(signalLog) + Len(signals) <= MaxSignals
       /\ marketsCache' = IF edge_list = <<>> THEN marketsCache ELSE r.eng.cache
       /\ signalLog' = append_signals(signalLog, signals)
       /\ signalsFile' = IF signals # <<>> THEN save_signals(append_signals(signalLog, signals))
                         ELSE signalsFile
       /\ lastCall' = [op |-> "on_resolution", resolution |-> resolution,
                       returned |-> signals,
                       fetches |-> IF edge_list = <<>> THEN 0 ELSE r.eng.fetches,
                       log_before |-> signalLog]
       /\ SetGraph(graph_after_reads(ThisGraph, edge_list))
       /\ UNCHANGED <<indexVars, loopVars, graphFile, lastAdded, probe, backtestVars, trackerVars, upstream>>

\* A call SignalMonitor.check makes: the method, its arguments and what it
\* returned.
MonitorCall(method, args, returned) == [method |-> method, args |-> args, returned |-> returned]

\* Mutant of needs_refresh: every cycle refreshes.
needs_refresh_always(new_resolutions) == TRUE

\* if new_resolutions:
needs_refresh(new_resolutions) == new_resolutions # <<>>

\* One on_resolution call inside a monitor cycle: the engine, log and file it
\* leaves, with what it returns added to the signals of the cycle.
cycle_step(st, resolution) ==
  LET edge_list == get_outgoing(ThisGraph, resolution.market_id)
      r == generate_all(st.eng, resolution, edge_list, <<>>)
  IN IF edge_list = <<>>
       THEN [st EXCEPT !.calls = Append(@, MonitorCall("on_resolution", <<resolution>>, <<>>))]
       ELSE [eng |-> r.eng, log |-> append_signals(st.log, r.signals),
             file |-> IF r.signals # <<>> THEN save_signals(append_signals(st.log, r.signals))
                      ELSE st.file,
             signals |-> st.signals \o r.signals,
             calls |-> Append(st.calls, MonitorCall("on_resolution", <<resolution>>, r.signals))]

\* for resolution in new_resolutions: signals.extend(self.engine.on_resolution(resolution))
RECURSIVE cycle_all(_, _)
cycle_all(st, new_resolutions) ==
  IF new_resolutions = <<>> THEN st
  ELSE cycle_all(cycle_step(st, Head(new_resolutions)), Tail(new_resolutions))

\* SignalMonitor.check(), new_resolutions being what the tracker reports.
check ==
  \E new_resolutions \in NewResolutionLists :
    LET polled == <<MonitorCall("check_new_resolutions", <<>>, new_resolutions)>>
        eng0 == IF needs_refresh(new_resolutions) THEN refreshed(Engine(marketsCache, 0))
                ELSE Engine(marketsCache, 0)
        calls0 == IF needs_refresh(new_resolutions)
                    THEN Append(polled, MonitorCall("refresh_markets", <<>>, <<>>))
                    ELSE polled
        st == cycle_all([eng |-> eng0, log |-> signalLog, file |-> signalsFile,
                         signals |-> <<>>, calls |-> calls0], new_resolutions)
    IN /\ Len(st.log) <= MaxSignals
       /\ marketsCache' = st.eng.cache
       /\ signalLog' = st.log
       /\ signalsFile' = st.file
       /\ lastCall' = [op |-> "check", new_resolutions |-> new_resolutions,
                       returned |-> st.signals, fetches |-> st.eng.fetches,
                       log_before |-> signalLog, calls |-> st.calls]
       /\ UNCHANGED <<indexVars, loopVars, graphVars, probe, backtestVars, trackerVars, upstream>>

\* SignalEngine(graph, client): a new engine over the persisted signal file.
new_engine ==
  /\ marketsCache' = EmptyDict
  /\ signalLog' = load_signals(signalsFile)
  /\ lastCall' = [op |-> "new_engine"]
  /\ UNCHANGED <<indexVars, loopVars, graphVars, probe, backtestVars, trackerVars, upstream, signalsFile>>

NextSignals == refresh_markets \/ on_resolution \/ check \/ new_engine

SpecSignals == InitSignals /\ [][NextSignals]_vars

(***************************************************************************)
(* Claims about SignalEngine (checked under SpecSignals)                   *)
(***************************************************************************)
Clamp(x, lo, hi) == IF x < lo THEN lo ELSE IF x > hi THEN hi ELSE x

\* The delta a logged signal was computed from.
SourceDelta(sig) == get_delta(sig.source_edge, sig.leader_outcome)

\* The edges of the last on_resolution call whose follower, now cached at the
\* given price, passed the confidence, delta and liquidity gates.
GatedEdges(price) ==
  {e \in Range(get_outgoing(ThisGraph, lastCall.resolution.market_id)) :
     /\ e.confidence >= MIN_CONFIDENCE
     /\ get_delta(e, lastCall.resolution.outcome).present
     /\ e.to_market_id \in DOMAIN marketsCache
     /\ yes_price(marketsCache[e.to_market_id]) = price
     /\ marketsCache[e.to_market_id].liquidity >= MIN_LIQUIDITY}

ReturnedFor(market_id) ==
  {i \in 1..Len(lastCall.returned) : lastCall.returned[i].market_id = market_id}

\* C8: a signal is emitted for an edge only if |expected_price - current_price|
\* >= MIN_MISPRICING (0.03), so every signal in the log has |expected_move| >=
\* MIN_MISPRICING; at current price 0.50 an expected delta of 0.15 yields a BUY
\* signal with expected_move 0.15 and an expected delta of 0.01 yields none.
C8_MispricingThreshold ==
  /\ \A i \in 1..Len(signalLog) :
       /\ Abs(signalLog[i].expected_move) >= MIN_MISPRICING
       /\ Abs(signalLog[i].expected_price - signalLog[i].current_price) >= MIN_MISPRICING
  /\ lastCall.op = "on_resolution" =>
       \A e \in GatedEdges(50) :
         LET avg == get_delta(e, lastCall.resolution.outcome).avg_delta
         IN /\ avg = 15 =>
                 \E i \in ReturnedFor(e.to_market_id) :
                   /\ lastCall.returned[i].direction = "BUY"
                   /\ lastCall.returned[i].expected_move = 15
                   /\ lastCall.returned[i].expected_price = 65
            /\ avg = 1 => ReturnedFor(e.to_market_id) = {}

\* C8 witness: one call has emitted the BUY signal of the example (0.50, delta
\* 0.15) and a signal whose move is exactly MIN_MISPRICING.
C8_Witness ==
  /\ lastCall.op = "on_resolution"
  /\ \E i, j \in 1..Len(signalLog) :
       /\ signalLog[i].current_price = 50
       /\ SourceDelta(signalLog[i]).avg_delta = 15
       /\ signalLog[i].direction = "BUY"
       /\ signalLog[i].expected_move = 15
       /\ Abs(signalLog[j].expected_move) = MIN_MISPRICING

\* C9: for every emitted signal expected_price is
\* clamp(current_price + avg_delta, 0.0, 1.0), hence within [0.0, 1.0] even
\* when the delta would push the price outside, and expected_move equals
\* expected_price - current_price (the clamped difference, not the raw delta).
C9_ExpectedPriceClamped ==
  \A i \in 1..Len(signalLog) :
    LET sig == signalLog[i]
    IN /\ SourceDelta(sig).present
       /\ sig.expected_price = Clamp(sig.current_price + SourceDelta(sig).avg_delta, 0, 100)
       /\ sig.expected_price >= 0
       /\ sig.expected_price <= 100
       /\ sig.expected_move = sig.expected_price - sig.current_price

\* C9 witness: the log holds a signal clamped at 1.0 and one clamped at 0.0,
\* each with a move smaller than its raw delta.
C9_Witness ==
  \E i, j \in 1..Len(signalLog) :
    /\ signalLog[i].current_price + SourceDelta(signalLog[i]).avg_delta > 100
    /\ signalLog[i].expected_price = 100
    /\ signalLog[i].expected_move < SourceDelta(signalLog[i]).avg_delta
    /\ signalLog[j].current_price + SourceDelta(signalLog[j]).avg_delta < 0
    /\ signalLog[j].expected_price = 0
    /\ signalLog[j].expected_move > SourceDelta(signalLog[j]).avg_delta

\* The stored edges led by a market.
LedBy(market_id) == {k \in DOMAIN edges : edges[k].from_market_id = market_id}

\* C15: on_resolution for a market without outgoing edges returns the empty
\* list and leaves the signal log, the signal file and the market cache as
\* they were, without an upstream fetch.
C15_NoEdgesNoEffect ==
  [][(lastCall'.op = "on_resolution" /\ LedBy(lastCall'.resolution.market_id) = {})
       => /\ lastCall'.returned = <<>>
          /\ lastCall'.fetches = 0
          /\ signalLog' = signalLog
          /\ signalsFile' = signalsFile
          /\ marketsCache' = marketsCache]_vars

\* An engine with a logged signal and a graph with edges has handled the
\* resolution of a market that leads none of them.
C15_Witness ==
  /\ lastCall.op = "on_resolution"
  /\ LedBy(lastCall.resolution.market_id) = {}
  /\ edges # EmptyDict
  /\ signalLog # <<>>
  /\ lastCall.returned = <<>>

\* The gates an edge passes before the mispricing test, for the last call.
PassesGates(e) ==
  /\ e.from_market_id = lastCall.resolution.market_id
  /\ e.confidence >= 50
  /\ get_delta(e, lastCall.resolution.outcome).present
  /\ e.to_market_id \in DOMAIN marketsCache
  /\ marketsCache[e.to_market_id].liquidity >= 5000

\* C16: every signal comes from a stored edge that leaves the resolved leader,
\* has confidence >= 0.5 and a delta for the resolved outcome, and targets a
\* cached follower with liquidity >= 5000; an edge that fails a gate yields
\* no signal.
C16_SignalGates ==
  lastCall.op = "on_resolution" =>
    /\ \A i \in 1..Len(lastCall.returned) :
         LET sig == lastCall.returned[i]
         IN /\ \E k \in DOMAIN edges : edges[k] = sig.source_edge
            /\ PassesGates(sig.source_edge)
            /\ sig.market_id = sig.source_edge.to_market_id
            /\ sig.leader_market_id = lastCall.resolution.market_id
            /\ sig.leader_outcome = lastCall.resolution.outcome
    /\ \A k \in DOMAIN edges :
         ~PassesGates(edges[k]) =>
           \A i \in 1..Len(lastCall.returned) : lastCall.returned[i].source_edge # edges[k]

\* One call gave a signal for one edge while another edge of the same leader
\* failed a gate.
C16_Witness ==
  /\ lastCall.op = "on_resolution"
  /\ lastCall.returned # <<>>
  /\ \E k \in LedBy(lastCall.resolution.market_id) : ~PassesGates(edges[k])

\* C17: a signal is a BUY exactly when its expected price is above its
\* current price and a SELL exactly when it is below; the two are never equal.
C17_Direction ==
  \A i \in 1..Len(signalLog) :
    LET sig == signalLog[i]
    IN /\ sig.direction \in {"BUY", "SELL"}
       /\ sig.direction = "BUY" <=> sig.expected_price > sig.current_price
       /\ sig.direction = "SELL" <=> sig.expected_price < sig.current_price
       /\ sig.expected_price # sig.current_price

\* The log holds a BUY and a SELL.
C17_Witness ==
  \E i, j \in 1..Len(signalLog) :
    /\ signalLog[i].direction = "BUY"
    /\ signalLog[j].direction = "SELL"

IsPrefix(a, b) == Len(a) <= Len(b) /\ SubSeq(b, 1, Len(a)) = a

\* C18: the log before a step is a prefix of the log after it, and an
\* on_resolution call extends the log by exactly the signals it returns, in
\* their order.
C18_AppendOnly ==
  [][/\ IsPrefix(signalLog, signalLog')
     /\ lastCall'.op \in {"on_resolution", "check"}
          => signalLog' = signalLog \o lastCall'.returned]_vars

\* A call has added a signal behind a signal logged by an earlier call.
C18_Witness ==
  /\ lastCall.op = "on_resolution"
  /\ lastCall.log_before # <<>>
  /\ lastCall.returned # <<>>
  /\ signalLog = lastCall.log_before \o lastCall.returned

\* C20: one SignalMonitor.check cycle makes at most one upstream
\* fetch_markets call, however many resolutions and edges it handles and
\* whether or not a follower is missing from the cache.
C20_OneFetchPerCycle == lastCall.op = "check" => lastCall.fetches <= 1

\* The fetches of a cycle as the code makes them: one for the cycle and one
\* more for every edge whose follower the cache does not hold.
C20_FetchPerMiss ==
  lastCall.op = "check" =>
    lastCall.fetches <= (IF lastCall.new_resolutions = <<>> THEN 0 ELSE 1)
                          + Cardinality(DOMAIN edges) * Len(lastCall.new_resolutions)

(***************************************************************************)
(* backtest.py: BacktestEngine                                             *)
(***************************************************************************)
\* run returns the empty result below this many markets with outcomes.
MIN_MARKETS == 10

\* random.seed(42)
SEED == 42

\* The generator of module random, reduced to a counter with RngMod states:
\* seed fixes the state, every draw advances it, and a draw below n is a
\* function of the state alone.
RngMod == 5

seed(a) == a % RngMod

rng_step(s) == (s + 1) % RngMod

randbelow(s, n) == (s * 7 + 3) % n

Swap(x, i, j) == [x EXCEPT ![i] = x[j], ![j] = x[i]]

\* random.shuffle(x): for i in reversed(range(1, len(x))): j = randbelow(i + 1);
\* x[i], x[j] = x[j], x[i]   (positions here count from 1)
RECURSIVE shuffle_from(_, _, _)
shuffle_from(s, x, i) ==
  IF i < 2 THEN [state |-> s, list |-> x]
  ELSE shuffle_from(rng_step(s), Swap(x, i, randbelow(s, i) + 1), i - 1)

shuffle(s, x) == shuffle_from(s, x, Len(x))

\* for m in all_market_ids: a set of strings is iterated in the order the
\* string hashes of the running interpreter give it.
iterate(order, S) == SelectSeq(order, LAMBDA m : m \in S)

\* all_market_ids: both endpoints of every valid edge.
all_market_ids_of(edge_list) ==
  {edge_list[i].from_market_id : i \in 1..Len(edge_list)}
    \cup {edge_list[i].to_market_id : i \in 1..Len(edge_list)}

\* n * (1 - test_fraction) in double arithmetic, for the fractions of
\* TestFractions and n up to 15: 1 - 0.9 is 0.09999999999999998, and its
\* product with an n for which n * 0.1 is whole lies just below that whole
\* number (10 * (1 - 0.9) is 0.9999999999999998), so that int() yields one
\* less; for the other fractions the product is the decimal one or above it
\* by less than one.
float_shortfall(n, test_fraction) == IF n > 0 /\ test_fraction = 90 /\ (n * (100 - test_fraction)) % 100 = 0 THEN 1 ELSE 0

\* Mutant of split_index: one market is always held out.
split_index_hold_one(n, test_fraction) == ((n * (100 - test_fraction)) \div 100) - 1

\* int(len(markets_with_outcomes) * (1 - test_fraction)), test_fraction in hundredths.
split_index(n, test_fraction) == ((n * (100 - test_fraction)) \div 100) - float_shortfall(n, test_fraction)

\* Mutant of is_train_edge: one endpoint in the train set is enough.
is_train_edge_either(e, train_markets) ==
  e.from_market_id \in train_markets \/ e.to_market_id \in train_markets

\* e.from_market_id in train_markets and e.to_market_id in train_markets
is_train_edge(e, train_markets) ==
  e.from_market_id \in train_markets /\ e.to_market_id \in train_markets

is_test_edge(e, train_markets, test_markets) ==
  \/ e.from_market_id \in train_markets /\ e.to_market_id \in test_markets
  \/ e.from_market_id \in test_markets /\ e.to_market_id \in train_markets

\* The loop that fills correlations.  An Outcome member is truthy, so
\* "if out1 and out2" asks whether both markets have an outcome.  reads
\* collects the market ids whose outcome the loop looks up.
RECURSIVE learn(_, _, _)
learn(acc, train_edges, outs) ==
  IF train_edges = <<>> THEN acc
  ELSE LET e == Head(train_edges)
           both == e.from_market_id \in DOMAIN outs /\ e.to_market_id \in DOMAIN outs
           key == <<e.from_market_id, e.to_market_id>>
           entry == [correlated |-> outs[e.from_market_id] = outs[e.to_market_id],
                     similarity |-> e.similarity]
       IN learn([correlations |-> IF both THEN DictSet(acc.correlations, key, entry)
                                  ELSE acc.correlations,
                 reads |-> acc.reads \cup {e.from_market_id, e.to_market_id}],
                Tail(train_edges), outs)

Trade(test_id, train_id, similarity, train_outcome, predicted, actual, profitable) ==
  [test_market_id |-> test_id, train_market_id |-> train_id, similarity |-> similarity,
   train_outcome |-> train_outcome, predicted_outcome |-> predicted,
   actual_outcome |-> actual, profitable |-> profitable]

\* _make_prediction(edge, train_markets, test_markets, correlations)
_make_prediction(edge, train_markets, test_markets, outs) ==
  LET forward == edge.from_market_id \in train_markets /\ edge.to_market_id \in test_markets
      train_id == IF forward THEN edge.from_market_id ELSE edge.to_market_id
      test_id == IF forward THEN edge.to_market_id ELSE edge.from_market_id
  IN IF train_id \notin DOMAIN outs \/ test_id \notin DOMAIN outs THEN None
     ELSE Some(Trade(test_id, train_id, edge.similarity, outs[train_id], outs[train_id],
                     outs[test_id], outs[train_id] = outs[test_id]))

\* for edge in test_edges: trade = _make_prediction(...); if trade: trades.append(trade)
RECURSIVE predict_all(_, _, _, _)
predict_all(test_edges, train_markets, test_markets, outs) ==
  IF test_edges = <<>> THEN <<>>
  ELSE LET trade == _make_prediction(Head(test_edges), train_markets, test_markets, outs)
           rest == predict_all(Tail(test_edges), train_markets, test_markets, outs)
       IN IF trade.some THEN <<trade.val>> \o rest ELSE rest

\* A float quotient of two small integers, kept as the pair.
Ratio(num, den) == [num |-> num, den |-> den]

SameRatio(a, b) == a.num * b.den = b.num * a.den

\* _empty_result(): no bucket_stats attribute is set on it.
\* total_pnl and avg_pnl_per_signal are the displayed values times 100.
_empty_result ==
  [total_signals |-> 0, profitable_signals |-> 0, total_pnl |-> 0,
   avg_pnl_per_signal |-> Ratio(0, 1), hit_rate |-> Ratio(0, 1),
   avg_decay_vs_lag |-> 0, bucket_stats |-> None]

\* (low, high) of each similarity bucket, in hundredths.
buckets == <<<<95, 100>>, <<90, 95>>, <<85, 90>>, <<80, 85>>, <<75, 80>>>>

\* bucket_trades = [t for t in trades if low <= t.similarity < high]
bucket_trades(trades, low, high) ==
  SelectSeq(trades, LAMBDA t : low <= t.similarity /\ t.similarity < high)

bucket_row(trades, low, high) ==
  LET bt == bucket_trades(trades, low, high)
      bucket_correct == Len(SelectSeq(bt, LAMBDA t : t.profitable))
  IN [low |-> low, high |-> high, count |-> Len(bt), correct |-> bucket_correct,
      hit_rate |-> Ratio(bucket_correct, IF bt = <<>> THEN 1 ELSE Len(bt))]

\* for low, high in buckets: ... if bucket_trades: bucket_stats.append({...})
bucket_stats_of(trades) ==
  SelectSeq([i \in 1..Len(buckets) |-> bucket_row(trades, buckets[i][1], buckets[i][2])],
            LAMBDA row : row.count > 0)

\* Mutant of _compute_results: a losing trade costs nothing.
compute_results_wins_only(trades) ==
  IF trades = <<>> THEN _empty_result
  ELSE LET profitable == SelectSeq(trades, LAMBDA t : t.profitable)
       IN [total_signals |-> Len(trades), profitable_signals |-> Len(profitable),
           total_pnl |-> Len(profitable), avg_pnl_per_signal |-> Ratio(Len(profitable), Len(trades)),
           hit_rate |-> Ratio(Len(profitable), Len(trades)),
           avg_decay_vs_lag |-> 0, bucket_stats |-> Some(bucket_stats_of(trades))]

\* _compute_results(trades)
_compute_results(trades) ==
  IF trades = <<>> THEN _empty_result
  ELSE LET profitable == SelectSeq(trades, LAMBDA t : t.profitable)
           total_pnl == Len(profitable) - (Len(trades) - Len(profitable))
       IN [total_signals |-> Len(trades), profitable_signals |-> Len(profitable),
           total_pnl |-> total_pnl, avg_pnl_per_signal |-> Ratio(total_pnl, Len(trades)),
           hit_rate |-> Ratio(Len(profitable), Len(trades)),
           avg_decay_vs_lag |-> 0, bucket_stats |-> Some(bucket_stats_of(trades))]

\* Mutant of too_few: the split is made however few markets qualify.
too_few_never(markets_with_outcomes) == FALSE

\* len(markets_with_outcomes) < 10
too_few(markets_with_outcomes) == Len(markets_with_outcomes) < MIN_MARKETS

\* What a run that returns before the split leaves behind.
early_return(rng_in, exit) ==
  [exit |-> exit, rng |-> rng_in, markets_with_outcomes |-> <<>>, train |-> {},
   test |-> {}, train_edges |-> <<>>, correlations |-> EmptyDict, learn_reads |-> {},
   test_edges |-> <<>>, trades |-> <<>>,
   result |-> _empty_result]

\* run(test_fraction) on graph g with outcomes outs, in an interpreter whose
\* set order is order and whose generator is in state rng_in.  Besides the
\* result the record keeps the locals of the call and the generator state
\* the call leaves.
run_backtest(g, outs, order, rng_in, test_fraction) ==
  LET edge_list == get_valid(g, 1, 3, 60)
      all_market_ids == all_market_ids_of(edge_list)
      markets_with_outcomes == iterate(order, all_market_ids \cap DOMAIN outs)
  IN IF edge_list = <<>> THEN early_return(rng_in, "no_edges")
     ELSE IF DOMAIN outs = {} THEN early_return(rng_in, "no_outcomes")
     ELSE IF too_few(markets_with_outcomes) THEN early_return(rng_in, "too_few")
     ELSE
       LET shuffled == shuffle(seed(SEED), markets_with_outcomes)
           split_idx == split_index(Len(shuffled.list), test_fraction)
           train_markets == {shuffled.list[i] : i \in 1..split_idx}
           test_markets == {shuffled.list[i] : i \in (split_idx + 1)..Len(shuffled.list)}
           train_edges == SelectSeq(edge_list, LAMBDA e : is_train_edge(e, train_markets))
           learned == learn([correlations |-> EmptyDict, reads |-> {}], train_edges, outs)
           test_edges == SelectSeq(edge_list,
                                   LAMBDA e : is_test_edge(e, train_markets, test_markets))
           trades == predict_all(test_edges, train_markets, test_markets, outs)
       IN [exit |-> "split", rng |-> shuffled.state,
           markets_with_outcomes |-> markets_with_outcomes,
           train |-> train_markets, test |-> test_markets, train_edges |-> train_edges,
           correlations |-> learned.correlations, learn_reads |-> learned.reads,
           test_edges |-> test_edges, trades |-> trades, result |-> _compute_results(trades)]

(***************************************************************************)
(* Inputs of the backtest specification                                    *)
(***************************************************************************)
\* Markets beyond the MIN_MARKETS the split needs.
ExtraMarkets == 1

NumMarkets == MIN_MARKETS + ExtraMarkets

IdPool == <<"m01", "m02", "m03", "m04", "m05", "m06", "m07", "m08", "m09",
            "m10", "m11", "m12", "m13">>

BtIds == SubSeq(IdPool, 1, NumMarkets)

\* Similarity of the edge between market i and market i + 1.
BtSims == <<100, 97, 95, 92, 90, 85, 80, 77, 75, 70, 99, 96>>

\* The deltas build_historical_edges gives an edge, and an edge without data.
BtValid(from_id, to_id, similarity) ==
  EventEdge(from_id, to_id, similarity, ConditionalDelta(30, 3600, 1),
            ConditionalDelta(-30, 3600, 1), similarity)

BtCandidate(from_id, to_id, similarity) ==
  EventEdge(from_id, to_id, similarity, NoDelta, NoDelta, similarity)

\* A chain over the markets; every second edge points backwards.  The edges
\* at the positions in candidates carry no deltas.
BtChain(candidates) ==
  [i \in 1..(NumMarkets - 1) |->
     LET from_id == IF i % 2 = 0 THEN BtIds[i + 1] ELSE BtIds[i]
         to_id == IF i % 2 = 0 THEN BtIds[i] ELSE BtIds[i + 1]
     IN IF i \in candidates THEN BtCandidate(from_id, to_id, BtSims[i])
        ELSE BtValid(from_id, to_id, BtSims[i])]

\* The two edges of the five-market example.
BtExample == <<BtValid(BtIds[1], BtIds[2], 90), BtValid(BtIds[3], BtIds[4], 85)>>

BtGraphs ==
  {BtChain({}), BtChain({NumMarkets - 1}), BtChain({5}), BtChain(1..(NumMarkets - 1)), BtExample}

BtBase == [m \in Range(BtIds) |->
             IF (CHOOSE i \in 1..NumMarkets : BtIds[i] = m) % 3 = 0 THEN NO ELSE YES]

Flip(o) == IF o = YES THEN NO ELSE YES

BtFlipped(i) == [BtBase EXCEPT ![BtIds[i]] = Flip(@)]

\* The outcomes of the five-market example: YES, NO, YES, NO, YES.
BtExampleOutcomes ==
  [m \in Range(SubSeq(BtIds, 1, 5)) |->
     IF (CHOOSE i \in 1..5 : BtIds[i] = m) % 2 = 0 THEN NO ELSE YES]

\* The outcome maps an engine is given: the base map, the base map with one
\* outcome changed, a map that knows too few markets, the map of the
\* five-market example, and no outcomes.
BtOutcomes ==
  {BtBase, BtFlipped(2), BtFlipped(5), BtFlipped(NumMarkets),
   [m \in Range(SubSeq(BtIds, 1, MIN_MARKETS - 1)) |-> BtBase[m]],
   BtExampleOutcomes, EmptyDict}

Reverse(x) == [i \in 1..Len(x) |-> x[Len(x) + 1 - i]]

\* Set orders of two interpreters.
HashOrders == {BtIds, Reverse(BtIds)}

TestFractions == {0, 30, 50, 70, 90}

(***************************************************************************)
(* BacktestEngine operations                                               *)
(***************************************************************************)
\* An interpreter that has imported backtest (init_deterministic(seed=42)) and
\* built an engine over a stored graph.
InitBacktest ==
  /\ \E chain \in BtGraphs :
       LET g == index_all(EmptyGraph, chain)
       IN /\ edges = g.edges
          /\ edgeKeys = g.keys
          /\ outgoing = g.outgoing
          /\ incoming = g.incoming
          /\ graphFile = save_doc(g)
          /\ lastAdded = note_added(EmptyDict, chain)
  /\ probe = ProbeIdle
  /\ IndexIdle
  /\ LoopIdle
  /\ SignalsIdle
  /\ TrackerIdle
  /\ outcomes = BtBase
  /\ hashOrder \in HashOrders
  /\ rng = seed(SEED)
  /\ lastRun = NoCall

\* engine.run(test_fraction)
run ==
  \E test_fraction \in TestFractions :
    LET r == run_backtest(ThisGraph, outcomes, hashOrder, rng, test_fraction)
    IN /\ rng' = r.rng
       /\ lastRun' = [op |-> "run", test_fraction |-> test_fraction,
                      outcomes |-> outcomes, order |-> hashOrder, exit |-> r.exit,
                      train |-> r.train, test |-> r.test, train_edges |-> r.train_edges,
                      correlations |-> r.correlations, learn_reads |-> r.learn_reads,
                      test_edges |-> r.test_edges, trades |-> r.trades,
                      result |-> r.result]
       /\ SetGraph(graph_after_reads(ThisGraph, get_valid(ThisGraph, 1, 3, 60)))
       /\ UNCHANGED <<indexVars, loopVars, graphFile, lastAdded, probe, signalVars, trackerVars, outcomes, hashOrder>>

\* engine.outcomes = {...}
set_outcomes ==
  \E o \in BtOutcomes :
    /\ outcomes' = o
    /\ UNCHANGED <<indexVars, loopVars, graphVars, probe, signalVars, trackerVars, hashOrder, rng, lastRun>>

\* Any other draw from module random.
use_random ==
  /\ rng' = rng_step(rng)
  /\ UNCHANGED <<indexVars, loopVars, graphVars, probe, signalVars, trackerVars, outcomes, hashOrder, lastRun>>

\* The program is started again on the same graph and outcomes: a new
\* interpreter has its own set order, and importing backtest seeds random.
new_process ==
  /\ hashOrder' \in HashOrders
  /\ rng' = seed(SEED)
  /\ UNCHANGED <<indexVars, loopVars, graphVars, probe, signalVars, trackerVars, outcomes, lastRun>>

NextBacktest == run \/ set_outcomes \/ use_random \/ new_process

SpecBacktest == InitBacktest /\ [][NextBacktest]_vars

(***************************************************************************)
(* Claims about BacktestEngine (checked under SpecBacktest)                *)
(***************************************************************************)
\* Two consecutive calls of run, the later one being the step at hand.
TwoRuns == lastRun.op = "run" /\ lastRun'.op = "run"

SameInputs ==
  /\ lastRun'.test_fraction = lastRun.test_fraction
  /\ lastRun'.outcomes = lastRun.outcomes

SameSplitAndScore ==
  /\ lastRun'.train = lastRun.train
  /\ lastRun'.test = lastRun.test
  /\ lastRun'.result.total_signals = lastRun.result.total_signals
  /\ SameRatio(lastRun'.result.hit_rate, lastRun.result.hit_rate)

\* C5: two calls of run with the same test fraction on the same graph and
\* the same outcomes give the same train/test split, the same total_signals
\* and the same hit_rate, whatever ran or drew random numbers in between.
C5_Determinism == [][(TwoRuns /\ SameInputs) => SameSplitAndScore]_vars

\* The same for two calls inside one interpreter.
C5_SameInterpreter ==
  [][(TwoRuns /\ SameInputs /\ lastRun'.order = lastRun.order) => SameSplitAndScore]_vars

\* C6: every key of the learned correlations has both markets in the train
\* set, and the learning loop looks up the outcome of no test-set market.
C6_LeakageBoundary ==
  lastRun.op = "run" =>
    /\ \A key \in DOMAIN lastRun.correlations :
         key[1] \in lastRun.train /\ key[2] \in lastRun.train
    /\ lastRun.learn_reads \cap lastRun.test = {}
    /\ \A m \in lastRun.learn_reads : m \in lastRun.train

\* A run that learned correlations while a valid edge joined a train market
\* to a test market, and that made predictions from test outcomes.
C6_Witness ==
  /\ lastRun.op = "run"
  /\ lastRun.exit = "split"
  /\ lastRun.correlations # EmptyDict
  /\ lastRun.trades # <<>>
  /\ \E i \in 1..Len(lastRun.trades) :
       /\ lastRun.trades[i].test_market_id \in lastRun.test
       /\ lastRun.trades[i].train_market_id \in lastRun.train

\* The later run has the same market ids, the same outcomes on the earlier
\* run's train set, and another outcome for one of its test markets.
TestOutcomesChanged ==
  /\ lastRun.exit = "split"
  /\ lastRun'.test_fraction = lastRun.test_fraction
  /\ DOMAIN lastRun'.outcomes = DOMAIN lastRun.outcomes
  /\ \A m \in lastRun.train : lastRun'.outcomes[m] = lastRun.outcomes[m]
  /\ \E m \in lastRun.test : lastRun'.outcomes[m] # lastRun.outcomes[m]

SameSplitAndCorrelations ==
  /\ lastRun'.train = lastRun.train
  /\ lastRun'.test = lastRun.test
  /\ lastRun'.correlations = lastRun.correlations

\* C7: two runs on the same graph whose outcome maps have the same market
\* ids, agree on every train-set market and differ on test-set markets have
\* the same train/test split and the same learned correlations.
C7_NonInterference ==
  [][(TwoRuns /\ TestOutcomesChanged) => SameSplitAndCorrelations]_vars

\* The same for two runs inside one interpreter.
C7_SameInterpreter ==
  [][(TwoRuns /\ TestOutcomesChanged /\ lastRun'.order = lastRun.order)
       => SameSplitAndCorrelations]_vars

\* The rows of the bucket table whose range holds the similarity.
RowsHolding(rows, similarity) ==
  {r \in 1..Len(rows) : rows[r].low <= similarity /\ similarity < rows[r].high}

RECURSIVE SumCounts(_)
SumCounts(rows) == IF rows = <<>> THEN 0 ELSE Head(rows).count + SumCounts(Tail(rows))

\* C10: in the bucket table of a result every trade is counted in exactly
\* one row, the row whose range holds its similarity, or in no row only if
\* its similarity is below 0.75; the counts sum to at most the number of
\* trades and no row has more correct trades than trades.
C10_BucketTable ==
  (lastRun.op = "run" /\ lastRun.result.bucket_stats.some) =>
    LET rows == lastRun.result.bucket_stats.val
        trades == lastRun.trades
    IN /\ \A i \in 1..Len(trades) :
            \/ Cardinality(RowsHolding(rows, trades[i].similarity)) = 1
            \/ /\ RowsHolding(rows, trades[i].similarity) = {}
               /\ trades[i].similarity < 75
       /\ \A r \in 1..Len(rows) :
            /\ rows[r].count =
                 Cardinality({i \in 1..Len(trades) :
                                rows[r].low <= trades[i].similarity
                                /\ trades[i].similarity < rows[r].high})
            /\ rows[r].correct <= rows[r].count
       /\ SumCounts(rows) <= lastRun.result.total_signals

\* total_signals 0, profitable_signals 0, total_pnl 0, hit_rate 0
ZeroValued(result) ==
  /\ result.total_signals = 0
  /\ result.profitable_signals = 0
  /\ result.total_pnl = 0
  /\ result.hit_rate.num = 0

\* C11: with test_fraction = 0 the test set is empty, no edge bridges train
\* and test, and run returns the empty result, for every graph and outcome
\* map, the five-market example among them.
C11_AllTrainSplit ==
  (lastRun.op = "run" /\ lastRun.test_fraction = 0) =>
    /\ lastRun.test = {}
    /\ lastRun.test_edges = <<>>
    /\ lastRun.trades = <<>>
    /\ lastRun.result = _empty_result
    /\ ZeroValued(lastRun.result)

\* A run with test_fraction = 0 that got as far as the split and learned from
\* train edges.
C11_Witness ==
  /\ lastRun.op = "run"
  /\ lastRun.test_fraction = 0
  /\ lastRun.exit = "split"
  /\ Cardinality(lastRun.train) >= MIN_MARKETS
  /\ lastRun.train_edges # <<>>

\* The markets touched by an edge the graph offers for backtesting that have
\* an outcome in outs.
KnownTouched(outs) == all_market_ids_of(get_valid(ThisGraph, 1, 3, 60)) \cap DOMAIN outs

InsufficientData(outs) ==
  \/ get_valid(ThisGraph, 1, 3, 60) = <<>>
  \/ DOMAIN outs = {}
  \/ Cardinality(KnownTouched(outs)) < 10

\* C12: when the graph yields no edges to backtest, no outcomes are loaded, or
\* fewer than 10 edge-touched markets have a known outcome, run returns the
\* zero-valued result (and makes no split).
C12_FailSoft ==
  (lastRun.op = "run" /\ InsufficientData(lastRun.outcomes)) =>
    /\ ZeroValued(lastRun.result)
    /\ lastRun.exit \in {"no_edges", "no_outcomes", "too_few"}
    /\ lastRun.train = {} /\ lastRun.test = {}

\* A run on valid edges with nine known markets, one short of the minimum.
C12_Witness ==
  /\ lastRun.op = "run"
  /\ lastRun.test_fraction > 0
  /\ get_valid(ThisGraph, 1, 3, 60) # <<>>
  /\ Cardinality(KnownTouched(lastRun.outcomes)) = 9
  /\ lastRun.exit = "too_few"

\* C13: if no edge has both markets in the train set, or no edge bridges
\* train and test, run returns a zero-valued result.
C13_EmptyEdgeSets ==
  (lastRun.op = "run" /\ lastRun.exit = "split"
     /\ (lastRun.train_edges = <<>> \/ lastRun.test_edges = <<>>))
    => ZeroValued(lastRun.result)

\* The bridging-edge half of C13 alone.
C13_NoBridgingEdges ==
  (lastRun.op = "run" /\ lastRun.exit = "split" /\ lastRun.test_edges = <<>>)
    => ZeroValued(lastRun.result)

\* C14: the markets run partitions into train and test are the markets
\* touched by any edge stored in the graph that have a known outcome.
C14_MarketUniverse ==
  (lastRun.op = "run" /\ lastRun.exit = "split") =>
    lastRun.train \cup lastRun.test
      = all_market_ids_of(get_all(ThisGraph)) \cap DOMAIN lastRun.outcomes

\* The universe the code partitions: markets touched by a valid edge.
C14_ValidEdgeUniverse ==
  (lastRun.op = "run" /\ lastRun.exit = "split") =>
    /\ lastRun.train \cup lastRun.test = KnownTouched(lastRun.outcomes)
    /\ lastRun.train \cap lastRun.test = {}

(***************************************************************************)
(* ingestion.py: ResolutionTracker                                         *)
(***************************************************************************)
\* MarketResolution.to_dict / from_dict: the outcome is written as the value
\* of the enum member (True for YES, False for NO) and read back by value.
resolution_to_dict(r) ==
  [market_id |-> r.market_id, resolved_at |-> r.resolved_at, outcome |-> (r.outcome = YES)]

resolution_from_dict(data) ==
  [market_id |-> data.market_id, resolved_at |-> data.resolved_at,
   outcome |-> IF data.outcome THEN YES ELSE NO]

\* Mutant of is_known: no market counts as tracked.
is_known_never(res, id) == FALSE

\* market.id in self._resolutions; the dict is kept as the list of its values
\* in insertion order.
is_known(res, id) == \E i \in 1..Len(res) : res[i].market_id = id

\* self._resolutions[id] = resolution
put_resolution(res, resolution) ==
  IF is_known(res, resolution.market_id)
    THEN [i \in 1..Len(res) |->
            IF res[i].market_id = resolution.market_id THEN resolution ELSE res[i]]
    ELSE Append(res, resolution)

\* ResolutionTracker._save
save_resolutions(res) == [i \in 1..Len(res) |-> resolution_to_dict(res[i])]

\* ResolutionTracker._load
RECURSIVE load_resolutions(_, _)
load_resolutions(res, doc) ==
  IF doc = <<>> THEN res
  ELSE load_resolutions(put_resolution(res, resolution_from_dict(Head(doc))), Tail(doc))

\* The loop of check_new_resolutions over the closed markets.
RECURSIVE poll(_, _, _)
poll(res, new_resolutions, closed_markets) ==
  IF closed_markets = <<>> THEN [resolutions |-> res, new_resolutions |-> new_resolutions]
  ELSE LET market == Head(closed_markets)
           resolution == _market_to_resolution(market)
       IN IF is_known(res, market.id) THEN poll(res, new_resolutions, Tail(closed_markets))
          ELSE IF resolution.some
            THEN poll(put_resolution(res, resolution.val),
                      Append(new_resolutions, resolution.val), Tail(closed_markets))
          ELSE poll(res, new_resolutions, Tail(closed_markets))

\* History: one more report for every resolution returned.
RECURSIVE count_reports(_, _)
count_reports(counts, new_resolutions) ==
  IF new_resolutions = <<>> THEN counts
  ELSE count_reports(DictSet(counts, Head(new_resolutions).market_id,
                             DictGet(counts, Head(new_resolutions).market_id, 0) + 1),
                     Tail(new_resolutions))

\* History: the first resolution recorded for every market.
RECURSIVE note_first(_, _)
note_first(first, new_resolutions) ==
  IF new_resolutions = <<>> THEN first
  ELSE note_first(IF Head(new_resolutions).market_id \in DOMAIN first THEN first
                  ELSE DictSet(first, Head(new_resolutions).market_id, Head(new_resolutions)),
                  Tail(new_resolutions))

(***************************************************************************)
(* Bounds and inputs of the ResolutionTracker specification                *)
(***************************************************************************)
\* Closed markets served in one poll.
MaxClosed == 2

\* A market that closed at 0.80, the same market served at 0.20, a second
\* market, and the second market without an end date.
ClosedMarkets ==
  {Market("r1", <<80, 20>>, 10000, 10000, "2024-12-31T23:59:59Z"),
   Market("r1", <<20, 80>>, 10000, 10000, "2025-01-01T00:00:00+00:00"),
   Market("r2", <<80, 20>>, 10000, 10000, "2024-12-31T23:59:59Z"),
   Market("r2", <<80, 20>>, 10000, 10000, "")}

ClosedLists == SeqsUpTo(ClosedMarkets, MaxClosed)

(***************************************************************************)
(* ResolutionTracker operations                                            *)
(***************************************************************************)
InitTracker ==
  /\ GraphInit
  /\ probe = ProbeIdle
  /\ IndexIdle
  /\ LoopIdle
  /\ SignalsIdle
  /\ BacktestIdle
  /\ closedServed \in ClosedLists
  /\ tracked = <<>>
  /\ resolutionsFile = <<>>
  /\ reported = EmptyDict
  /\ firstStored = EmptyDict
  /\ lastPoll = NoCall

\* check_new_resolutions()
check_new_resolutions ==
  LET r == poll(tracked, <<>>, closedServed)
  IN /\ tracked' = r.resolutions
     /\ resolutionsFile' = IF r.new_resolutions # <<>> THEN save_resolutions(r.resolutions)
                           ELSE resolutionsFile
     /\ reported' = count_reports(reported, r.new_resolutions)
     /\ firstStored' = note_first(firstStored, r.new_resolutions)
     /\ lastPoll' = [op |-> "check_new_resolutions", returned |-> r.new_resolutions,
                     observed |-> {closedServed[i].id : i \in 1..Len(closedServed)},
                     known_before |-> {tracked[i].market_id : i \in 1..Len(tracked)}]
     /\ UNCHANGED <<indexVars, loopVars, graphVars, probe, signalVars, backtestVars, closedServed>>

\* ResolutionTracker(client) in a restarted process: the map is read back
\* from the file.
new_tracker ==
  /\ tracked' = load_resolutions(<<>>, resolutionsFile)
  /\ lastPoll' = [op |-> "new_tracker"]
  /\ UNCHANGED <<indexVars, loopVars, graphVars, probe, signalVars, backtestVars, closedServed,
                 resolutionsFile, reported, firstStored>>

\* The API serves another list of closed markets.
serve_closed ==
  /\ \E served \in ClosedLists : closedServed' = served
  /\ lastPoll' = [op |-> "serve_closed"]
  /\ UNCHANGED <<indexVars, loopVars, graphVars, probe, signalVars, backtestVars, tracked,
                 resolutionsFile, reported, firstStored>>

NextTracker == check_new_resolutions \/ new_tracker \/ serve_closed

SpecTracker == InitTracker /\ [][NextTracker]_vars

(***************************************************************************)
(* Claims about ResolutionTracker (checked under SpecTracker)              *)
(***************************************************************************)
\* No market was reported twice, and the map and the file hold for every
\* market the resolution first recorded for it.
CreatedOnce ==
  /\ \A id \in DOMAIN reported : reported[id] <= 1
  /\ \A i \in 1..Len(tracked) : tracked[i] = firstStored[tracked[i].market_id]
  /\ \A i \in 1..Len(resolutionsFile) :
       resolution_from_dict(resolutionsFile[i]) = firstStored[resolutionsFile[i].market_id]

\* A poll that sees only known markets returns nothing and changes neither
\* the map nor the file.
KnownOnlyPollIsNoOp ==
  (lastPoll'.op = "check_new_resolutions" /\ lastPoll'.observed \subseteq lastPoll'.known_before)
    => /\ lastPoll'.returned = <<>>
       /\ tracked' = tracked
       /\ resolutionsFile' = resolutionsFile

\* C19: over any sequence of check_new_resolutions calls, restarts of the
\* tracker from its file included, a market id is returned as new at most
\* once, its stored resolution never changes, and a poll that observes only
\* known ids returns an empty list and leaves map and file unchanged.
C19_CreateOnce == [](CreatedOnce) /\ [][KnownOnlyPollIsNoOp]_vars

\* A poll has seen only known markets, one of them served at a price that
\* would resolve the other way, and returned nothing.
C19_Witness ==
  /\ lastPoll.op = "check_new_resolutions"
  /\ lastPoll.observed # {}
  /\ lastPoll.observed \subseteq lastPoll.known_before
  /\ lastPoll.returned = <<>>
  /\ \E i \in 1..Len(closedServed), j \in 1..Len(tracked) :
       /\ closedServed[i].id = tracked[j].market_id
       /\ outcome_of_price(yes_price(closedServed[i])) # tracked[j].outcome

(***************************************************************************)
(* Library calls (SpecCalls): one call of a function of the library on     *)
(* arguments drawn from bounded sets; probe records the call.              *)
(***************************************************************************)

\* BacktestEngine._load_outcomes on the document of the outcomes file (None
\* when the file is missing; otherwise the list of its (id, value) members):
\* the map built, or raised when Outcome(val) raises for a member.
_load_outcomes(file) ==
  IF ~file.some
    THEN [raised |-> FALSE, map |-> EmptyDict]
    ELSE LET members == file.val
             ids == {members[i][1] : i \in 1..Len(members)}
             last(id) == CHOOSE i \in 1..Len(members) :
                           /\ members[i][1] = id
                           /\ \A j \in (i+1)..Len(members) : members[j][1] # id
         IN  IF \E i \in 1..Len(members) : ~outcome_by_value(members[i][2]).some
               THEN [raised |-> TRUE, map |-> EmptyDict]
               ELSE [raised |-> FALSE,
                     map |-> [id \in ids |-> outcome_by_value(members[last(id)][2]).val]]

JsonValues == {JsonString("YES"), JsonString("NO"), JsonBool(TRUE), JsonBool(FALSE), JsonNumber("1"), JsonNumber("0"), JsonNumber("2")}

\* Outcomes documents: no file, the empty object, and every object with the
\* members market1 and market2.
OutcomeFiles == {None, Some(<<>>)} \cup {Some(<<<<"market1", v1>>, <<"market2", v2>>>>) : v1 \in JsonValues, v2 \in JsonValues}

call_outcome_value ==
  /\ probe = ProbeIdle
  /\ \E member \in Outcome :
       probe' = [op |-> "value", member |-> member, result |-> outcome_value(member)]
  /\ UNCHANGED <<indexVars, loopVars, graphVars, signalVars, backtestVars, trackerVars>>

call_outcome_by_value ==
  /\ probe = ProbeIdle
  /\ \E val \in JsonValues :
       probe' = [op |-> "Outcome", val |-> val, result |-> outcome_by_value(val)]
  /\ UNCHANGED <<indexVars, loopVars, graphVars, signalVars, backtestVars, trackerVars>>

call_load_outcomes ==
  /\ probe = ProbeIdle
  /\ \E file \in OutcomeFiles :
       probe' = [op |-> "_load_outcomes", file |-> file, result |-> _load_outcomes(file)]
  /\ UNCHANGED <<indexVars, loopVars, graphVars, signalVars, backtestVars, trackerVars>>

\* C21: Outcome's values are the strings "YES" and "NO": Outcome.YES.value
\* is "YES", Outcome("YES") is Outcome.YES and Outcome("NO") is Outcome.NO,
\* and loading an outcomes file whose members are "YES" or "NO" does not
\* raise and maps each id to the corresponding Outcome.
C21_OutcomeStrings ==
  /\ probe.op = "value" => probe.result = JsonString(probe.member)
  /\ probe.op = "Outcome" /\ probe.val = JsonString("YES") => probe.result = Some(YES)
  /\ probe.op = "Outcome" /\ probe.val = JsonString("NO") => probe.result = Some(NO)
  /\ (/\ probe.op = "_load_outcomes"
      /\ probe.file.some
      /\ \A i \in 1..Len(probe.file.val) : probe.file.val[i][2] \in {JsonString("YES"), JsonString("NO")})
     => /\ ~probe.result.raised
        /\ \A i \in 1..Len(probe.file.val) :
             LET id == probe.file.val[i][1]
             IN  /\ id \in DOMAIN probe.result.map
                 /\ JsonString(probe.result.map[id]) = probe.file.val[i][2]

(***************************************************************************)
(* build_edges (graph.py) over cluster_markets (utils/embeddings.py)       *)
(***************************************************************************)

\* Market ids in ascending string order.
BuildIds == <<"a", "b", "c">>

\* Python's < on the id strings.
id_less(x, y) == \E i \in 1..Len(BuildIds) : \E j \in (i+1)..Len(BuildIds) : BuildIds[i] = x /\ BuildIds[j] = y

RelatedPair(market_i, market_j, similarity) == [market_i |-> market_i, market_j |-> market_j, similarity |-> similarity]

\* The sort key of related_pairs: (-similarity, market_i.id, market_j.id).
pair_before(p, q) ==
  \/ p.similarity > q.similarity
  \/ p.similarity = q.similarity /\ id_less(p.market_i, q.market_i)
  \/ p.similarity = q.similarity /\ p.market_i = q.market_i /\ id_less(p.market_j, q.market_j)

RECURSIVE insert_pair(_, _)
insert_pair(sorted, p) ==
  IF sorted = <<>> THEN <<p>>
  ELSE IF pair_before(p, Head(sorted)) THEN <<p>> \o sorted
  ELSE <<Head(sorted)>> \o insert_pair(Tail(sorted), p)

RECURSIVE sort_pairs(_)
sort_pairs(pairs) ==
  IF pairs = <<>> THEN <<>>
  ELSE insert_pair(sort_pairs(SubSeq(pairs, 1, Len(pairs) - 1)), pairs[Len(pairs)])

RECURSIVE pairs_from(_, _, _, _)
pairs_from(markets, related, i, j) ==
  IF i >= Len(markets) THEN <<>>
  ELSE IF j > Len(markets) THEN pairs_from(markets, related, i + 1, i + 2)
  ELSE (IF {markets[i], markets[j]} \in DOMAIN related /\ markets[i] # markets[j]
          THEN <<RelatedPair(markets[i], markets[j], related[{markets[i], markets[j]}])>>
          ELSE <<>>)
       \o pairs_from(markets, related, i, j + 1)

\* cluster_markets(markets): the pairs (earlier, later in the list) that the
\* embedder and k-means put in one cluster with a similarity of at least
\* min_similarity -- given by related, from the pair of ids to that
\* similarity -- sorted by the key.
cluster_markets(markets, related) ==
  IF Len(markets) < 2 THEN <<>> ELSE sort_pairs(pairs_from(markets, related, 1, 2))

\* Mutant of leader_is_market_i: the resolutions are ignored.
leader_is_market_i_always(market_i, market_j, resolutions) == TRUE

\* Whether build_edges makes market_i (rather than market_j) the leader.
leader_is_market_i(market_i, market_j, resolutions) ==
  LET res_i == market_i \in DOMAIN resolutions
      res_j == market_j \in DOMAIN resolutions
  IN  IF res_i /\ res_j
        THEN resolutions[market_i].resolved_at < resolutions[market_j].resolved_at
        ELSE IF res_i THEN TRUE
        ELSE IF res_j THEN FALSE
        ELSE TRUE

edge_of_pair(pair, resolutions) ==
  IF leader_is_market_i(pair.market_i, pair.market_j, resolutions)
    THEN EventEdge(pair.market_i, pair.market_j, pair.similarity, NoDelta, NoDelta, pair.similarity)
    ELSE EventEdge(pair.market_j, pair.market_i, pair.similarity, NoDelta, NoDelta, pair.similarity)

build_edges(markets, resolutions, related) ==
  IF Len(markets) < 2
    THEN [related_pairs |-> <<>>, edges |-> <<>>]
    ELSE LET related_pairs == cluster_markets(markets, related)
         IN  [related_pairs |-> related_pairs,
              edges |-> [k \in 1..Len(related_pairs) |-> edge_of_pair(related_pairs[k], resolutions)]]

MaxRelated == 2

BuildSims == {80, 90}

BuildTimes == {1, 2}

BuildMarketLists == {s \in SeqsUpTo(Range(BuildIds), Len(BuildIds)) : \A i \in 1..Len(s) : \A j \in 1..Len(s) : s[i] = s[j] => i = j}

BuildPairs == {{x, y} : x \in Range(BuildIds), y \in Range(BuildIds)} \ {{x} : x \in Range(BuildIds)}

BuildRelated == UNION {[D -> BuildSims] : D \in {S \in SUBSET BuildPairs : Cardinality(S) <= MaxRelated}}

BuildResolutions == UNION {{[id \in D |-> [market_id |-> id, resolved_at |-> t[id], outcome |-> YES]] : t \in [D -> BuildTimes]} : D \in SUBSET Range(BuildIds)}

call_build_edges ==
  /\ probe = ProbeIdle
  /\ \E markets \in BuildMarketLists, resolutions \in BuildResolutions, related \in BuildRelated :
       LET built == build_edges(markets, resolutions, related)
       IN  probe' = [op |-> "build_edges", markets |-> markets, resolutions |-> resolutions,
                     related_pairs |-> built.related_pairs, result |-> built.edges]
  /\ UNCHANGED <<indexVars, loopVars, graphVars, signalVars, backtestVars, trackerVars>>

ResolvedAt(id) == probe.resolutions[id].resolved_at

IsResolved(id) == id \in DOMAIN probe.resolutions

LeaderFollower(k, leader, follower) == probe.result[k].from_market_id = leader /\ probe.result[k].to_market_id = follower

\* C22: build_edges makes one edge per candidate pair; when both markets of
\* the pair have a known resolution the one with the earlier resolved_at is
\* the leader and the other the follower, and when exactly one has a known
\* resolution that one is the leader.
C22_LeaderByResolution ==
  probe.op = "build_edges" =>
    /\ Len(probe.result) = Len(probe.related_pairs)
    /\ \A k \in 1..Len(probe.related_pairs) :
         LET x == probe.related_pairs[k].market_i
             y == probe.related_pairs[k].market_j
         IN  /\ {probe.result[k].from_market_id, probe.result[k].to_market_id} = {x, y}
             /\ (IsResolved(x) /\ IsResolved(y) /\ ResolvedAt(x) < ResolvedAt(y)) => LeaderFollower(k, x, y)
             /\ (IsResolved(x) /\ IsResolved(y) /\ ResolvedAt(y) < ResolvedAt(x)) => LeaderFollower(k, y, x)
             /\ (IsResolved(x) /\ ~IsResolved(y)) => LeaderFollower(k, x, y)
             /\ (IsResolved(y) /\ ~IsResolved(x)) => LeaderFollower(k, y, x)

C22_Witness ==
  /\ probe.op = "build_edges"
  /\ Len(probe.related_pairs) = 2
  /\ LET p == probe.related_pairs[1]
         q == probe.related_pairs[2]
     IN  /\ IsResolved(p.market_i) /\ IsResolved(p.market_j)
         /\ ResolvedAt(p.market_j) < ResolvedAt(p.market_i)
         /\ LeaderFollower(1, p.market_j, p.market_i)
         /\ IsResolved(q.market_j) /\ ~IsResolved(q.market_i)
         /\ LeaderFollower(2, q.market_j, q.market_i)

edge_not_after(e, f) ==
  \/ e.similarity > f.similarity
  \/ e.similarity = f.similarity /\ id_less(e.from_market_id, f.from_market_id)
  \/ e.similarity = f.similarity /\ e.from_market_id = f.from_market_id /\ ~id_less(f.to_market_id, e.to_market_id)

\* C23: the list build_edges returns is sorted by descending similarity, and
\* edges of equal similarity by ascending (from_market_id, to_market_id).
C23_EdgesSorted ==
  probe.op = "build_edges" =>
    \A k \in 1..Len(probe.result) : \A l \in (k+1)..Len(probe.result) :
      edge_not_after(probe.result[k], probe.result[l])

(***************************************************************************)
(* Market.yes_price / Market.no_price (client.py, utils/client.py)         *)
(***************************************************************************)

\* Price lists as _parse_market builds them: float(p) of every entry of
\* outcomePrices, whatever the API served, or [0.0, 1.0] for none.
PriceValues == {30, 60, 70}

MaxPrices == 2

PriceLists == SeqsUpTo(PriceValues, MaxPrices)

call_prices ==
  /\ probe = ProbeIdle
  /\ \E prices \in PriceLists, id \in Range(BuildIds) :
       LET market == Market(id, prices, MIN_VOLUME, MIN_LIQUIDITY, "")
       IN  probe' = [op |-> "prices", market |-> market,
                     yes_price |-> yes_price(market), no_price |-> no_price(market)]
  /\ UNCHANGED <<indexVars, loopVars, graphVars, signalVars, backtestVars, trackerVars>>

\* C24: for every Market, no_price is 1 - yes_price, so that the two sum to
\* 1 whatever its price list is.
C24_PricesSumToOne ==
  probe.op = "prices" =>
    /\ probe.no_price = 100 - probe.yes_price
    /\ probe.yes_price + probe.no_price = 100

NextCalls == call_outcome_value \/ call_outcome_by_value \/ call_load_outcomes \/ call_build_edges \/ call_prices

SpecCalls == Init /\ [][NextCalls]_vars

(***************************************************************************)
(* VectorIndex (utils/vector_index.py)                                     *)
(***************************************************************************)

\* A float array of shape (rows, cols), as far as add reads it.
Array(rows, cols) == [rows |-> rows, cols |-> cols]

\* VectorIndex(dimension): vectors is the list of the widths of the stored
\* rows (the FAISS index, or self.vectors, None counting as no rows).
VectorIndex(dimension, use_faiss) == [dimension |-> dimension, use_faiss |-> use_faiss, vectors |-> <<>>, ids |-> <<>>]

\* Mutant of add_asserts: the count of ids is not compared.
add_asserts_dimension_only(index, vectors, ids) == vectors.cols = index.dimension

\* The two assert statements of add.
add_asserts(index, vectors, ids) == vectors.cols = index.dimension /\ vectors.rows = Len(ids)

\* add(vectors, ids): the index it leaves, and whether it raised.
add(index, vectors, ids) ==
  IF ~add_asserts(index, vectors, ids)
    THEN [index |-> index, raised |-> "AssertionError"]
    ELSE [index |-> [index EXCEPT !.vectors = @ \o [k \in 1..vectors.rows |-> vectors.cols],
                                  !.ids = @ \o ids],
          raised |-> "none"]

MaxStored == 3

MaxRows == 2

IndexDimensions == {2, 3}

IndexIds == SeqsUpTo({"id0", "id1"}, MaxRows)

InitIndex ==
  /\ GraphInit
  /\ probe = ProbeIdle
  /\ SignalsIdle
  /\ BacktestIdle
  /\ TrackerIdle
  /\ LoopIdle
  /\ \E dimension \in IndexDimensions, use_faiss \in BOOLEAN :
       vectorIndex = VectorIndex(dimension, use_faiss)
  /\ lastAdd = NoCall

index_add ==
  \E rows \in 0..MaxRows, cols \in IndexDimensions, ids \in IndexIds :
    LET r == add(vectorIndex, Array(rows, cols), ids)
    IN  /\ Len(r.index.ids) <= MaxStored
        /\ Len(r.index.vectors) <= MaxStored
        /\ vectorIndex' = r.index
        /\ lastAdd' = [op |-> "add", vectors |-> Array(rows, cols), ids |-> ids,
                       raised |-> r.raised, before |-> vectorIndex]
        /\ UNCHANGED <<graphVars, probe, signalVars, backtestVars, trackerVars, loopVars>>

new_index ==
  /\ \E dimension \in IndexDimensions, use_faiss \in BOOLEAN :
       vectorIndex' = VectorIndex(dimension, use_faiss)
  /\ lastAdd' = [op |-> "VectorIndex"]
  /\ UNCHANGED <<graphVars, probe, signalVars, backtestVars, trackerVars, loopVars>>

NextIndex == index_add \/ new_index

SpecIndex == InitIndex /\ [][NextIndex]_vars

\* C25: an add whose vectors have another dimension than the index, or whose
\* number of vectors differs from the number of ids, raises AssertionError
\* and leaves the index as it was; the index always holds as many ids as
\* vectors.
C25_AddChecked ==
  /\ Len(vectorIndex.ids) = Len(vectorIndex.vectors)
  /\ \A k \in 1..Len(vectorIndex.vectors) : vectorIndex.vectors[k] = vectorIndex.dimension
  /\ lastAdd.op = "add" =>
       /\ (lastAdd.vectors.cols # lastAdd.before.dimension \/ lastAdd.vectors.rows # Len(lastAdd.ids))
            => (lastAdd.raised = "AssertionError" /\ vectorIndex = lastAdd.before)
       /\ lastAdd.raised = "none" =>
            /\ vectorIndex.ids = lastAdd.before.ids \o lastAdd.ids
            /\ Len(vectorIndex.vectors) = Len(lastAdd.before.vectors) + lastAdd.vectors.rows

C25_Witness ==
  /\ lastAdd.op = "add"
  /\ lastAdd.vectors.cols = lastAdd.before.dimension
  /\ lastAdd.vectors.rows # Len(lastAdd.ids)
  /\ lastAdd.before.ids # <<>>
  /\ lastAdd.raised = "AssertionError"

(***************************************************************************)
(* The split, the trades and the aggregates of a backtest run              *)
(***************************************************************************)

\* C26: the split is a partition of the qualifying markets (touched by an
\* edge, outcome known), and of the n qualifying markets
\* floor(n * (1 - test_fraction)) are in the train set and the rest in the
\* test set.
C26_SplitSizes ==
  (lastRun.op = "run" /\ lastRun.exit = "split") =>
    LET n == Cardinality(KnownTouched(lastRun.outcomes))
    IN  /\ lastRun.train \cap lastRun.test = {}
        /\ lastRun.train \cup lastRun.test = KnownTouched(lastRun.outcomes)
        /\ Cardinality(lastRun.train) = (n * (100 - lastRun.test_fraction)) \div 100
        /\ Cardinality(lastRun.test) = n - ((n * (100 - lastRun.test_fraction)) \div 100)

\* An edge with one endpoint in the train set and the other in the test set
\* of the last run.
IsBridging(e) ==
  \/ e.from_market_id \in lastRun.train /\ e.to_market_id \in lastRun.test
  \/ e.from_market_id \in lastRun.test /\ e.to_market_id \in lastRun.train

TrainEnd(e) == IF e.from_market_id \in lastRun.train THEN e.from_market_id ELSE e.to_market_id

TestEnd(e) == IF e.from_market_id \in lastRun.train THEN e.to_market_id ELSE e.from_market_id

\* The trades of the last run are, in order, one per bridging edge of
\* edge_list: train and test endpoint, the train endpoint's outcome as the
\* prediction, the test endpoint's outcome as the actual one, profitable iff
\* the two are equal.
TradesOf(edge_list) ==
  LET bridging == SelectSeq(edge_list, IsBridging)
  IN  /\ Len(lastRun.trades) = Len(bridging)
      /\ \A k \in 1..Len(bridging) :
           LET trade == lastRun.trades[k]
           IN  /\ trade.train_market_id = TrainEnd(bridging[k])
               /\ trade.test_market_id = TestEnd(bridging[k])
               /\ trade.predicted_outcome = lastRun.outcomes[TrainEnd(bridging[k])]
               /\ trade.actual_outcome = lastRun.outcomes[TestEnd(bridging[k])]
               /\ trade.profitable = (trade.predicted_outcome = trade.actual_outcome)

\* C27: run makes exactly one trade for every edge of the graph with one
\* endpoint in train and the other in test, and none for another edge; the
\* trade names the train and the test endpoint, predicts the train
\* endpoint's outcome, and is profitable iff that is the test endpoint's
\* outcome, whatever the direction and the deltas of the edge.
C27_TradePerBridgingEdge ==
  (lastRun.op = "run" /\ lastRun.exit = "split") => TradesOf(get_all(ThisGraph))

\* C27 for the edges run reads from the graph, those of get_valid.
C27_TradePerValidBridgingEdge ==
  (lastRun.op = "run" /\ lastRun.exit = "split") => TradesOf(get_valid(ThisGraph, 1, 3, 60))

Correct(trades) == Cardinality({k \in 1..Len(trades) : trades[k].profitable})

Incorrect(trades) == Cardinality({k \in 1..Len(trades) : ~trades[k].profitable})

\* C28: for a non-empty trade list total_signals is the number of trades,
\* profitable_signals the number of correct ones (at most total_signals),
\* hit_rate their quotient, total_pnl (correct - incorrect) / 100 and
\* avg_pnl_per_signal total_pnl / total_signals.  total_pnl and
\* avg_pnl_per_signal are held in hundredths.
C28_Aggregates ==
  (lastRun.op = "run" /\ lastRun.trades # <<>>) =>
    LET result == lastRun.result
        trades == lastRun.trades
    IN  /\ result.total_signals = Len(trades)
        /\ result.profitable_signals = Correct(trades)
        /\ result.profitable_signals <= result.total_signals
        /\ SameRatio(result.hit_rate, Ratio(result.profitable_signals, result.total_signals))
        /\ result.total_pnl = Correct(trades) - Incorrect(trades)
        /\ SameRatio(result.avg_pnl_per_signal, Ratio(result.total_pnl, result.total_signals))

\* A run with correct and incorrect trades and a loss overall.
C28_Witness ==
  /\ lastRun.op = "run"
  /\ Correct(lastRun.trades) >= 1
  /\ Incorrect(lastRun.trades) > Correct(lastRun.trades)
  /\ lastRun.result.total_pnl < 0

(***************************************************************************)
(* The order of a SignalMonitor.check cycle                                *)
(***************************************************************************)
Positions(calls, method) == {k \in 1..Len(calls) : calls[k].method = method}

RECURSIVE returned_by(_)
returned_by(calls) ==
  IF calls = <<>> THEN <<>>
  ELSE (IF Head(calls).method = "on_resolution" THEN Head(calls).returned ELSE <<>>)
       \o returned_by(Tail(calls))

\* C29: a check cycle polls the tracker first; it refreshes the cache iff
\* the poll returned a new resolution, and then before any on_resolution
\* call; it calls on_resolution once for each new resolution, in the order
\* reported, and returns the signals of these calls, concatenated.
C29_CycleOrder ==
  lastCall.op = "check" =>
    LET calls == lastCall.calls
        new_resolutions == lastCall.new_resolutions
        handled == SelectSeq(calls, LAMBDA c : c.method = "on_resolution")
    IN  /\ calls[1].method = "check_new_resolutions"
        /\ Positions(calls, "check_new_resolutions") = {1}
        /\ calls[1].returned = new_resolutions
        /\ (Positions(calls, "refresh_markets") # {}) <=> (new_resolutions # <<>>)
        /\ (lastCall.fetches > 0) <=> (new_resolutions # <<>>)
        /\ Cardinality(Positions(calls, "refresh_markets")) <= 1
        /\ \A k \in Positions(calls, "refresh_markets") :
             \A l \in Positions(calls, "on_resolution") : k < l
        /\ Len(handled) = Len(new_resolutions)
        /\ \A k \in 1..Len(handled) : handled[k].args = <<new_resolutions[k]>>
        /\ lastCall.returned = returned_by(calls)

\* A cycle with two new resolutions of which the second yields signals.
C29_Witness ==
  /\ lastCall.op = "check"
  /\ Len(lastCall.new_resolutions) = 2
  /\ Len(lastCall.calls) = 4
  /\ lastCall.calls[3].returned = <<>>
  /\ lastCall.calls[4].returned # <<>>
  /\ lastCall.returned = lastCall.calls[4].returned

(***************************************************************************)
(* SignalMonitor.run_forever (signals.py) and IngestionRunner.run_forever  *)
(* (ingestion.py): while True: try: <cycle>; time.sleep(interval)          *)
(*                 except KeyboardInterrupt: break                         *)
(*                 except Exception: logger.error(...); time.sleep(60)     *)
(***************************************************************************)

\* pc is where the loop stands: "cycle" (in the try block, before its
\* sleep), "sleep" (in the sleep that ends the try block), "backoff" (in the
\* sleep of the Exception handler), "stopped" (left by break) or
\* "interrupted" (left by a KeyboardInterrupt raised in the handler, which
\* no except clause covers).  cycles counts the cycles begun and caught the
\* exceptions handled, both up to MaxCycles; in_progress is the number of
\* cycles under way; last is the last thing that happened.
Loop(pc, cycles, caught, in_progress, last) == [op |-> "run_forever", pc |-> pc, cycles |-> cycles, caught |-> caught, in_progress |-> in_progress, last |-> last]

MaxCycles == 3

UpTo(n) == IF n < MaxCycles THEN n + 1 ELSE MaxCycles

\* What a cycle can end in: it returns, raises an Exception, or the user
\* interrupts it.
CycleOutcomes == {"return", "Exception", "KeyboardInterrupt"}

\* Mutant of on_raise: whatever is raised leaves the loop.
on_raise_breaks(raised) == "stopped"

\* The except clause that takes what the try block raised, as the pc it
\* leads to.
on_raise(raised) == IF raised = "KeyboardInterrupt" THEN "stopped" ELSE "backoff"

\* run_forever is entered: the first cycle begins.
enter_loop == Loop("cycle", 1, 0, 1, "entered")

\* the cycle (check(), or run_once() and the callbacks) ends
end_cycle(loop, outcome) ==
  IF outcome = "return"
    THEN Loop("sleep", loop.cycles, loop.caught, 0, outcome)
    ELSE Loop(on_raise(outcome), loop.cycles,
              IF on_raise(outcome) = "backoff" THEN UpTo(loop.caught) ELSE loop.caught, 0, outcome)

\* time.sleep(interval) in the try block ends: by itself, or by an interrupt
end_sleep(loop, interrupted) ==
  IF interrupted
    THEN Loop(on_raise("KeyboardInterrupt"), loop.cycles, loop.caught, 0, "KeyboardInterrupt")
    ELSE Loop("cycle", UpTo(loop.cycles), loop.caught, 1, "slept")

\* time.sleep(60) in the Exception handler ends: by itself, or by an interrupt
end_backoff(loop, interrupted) ==
  IF interrupted
    THEN Loop("interrupted", loop.cycles, loop.caught, 0, "KeyboardInterrupt")
    ELSE Loop("cycle", UpTo(loop.cycles), loop.caught, 1, "backed_off")

InitLoops ==
  /\ GraphInit
  /\ probe = ProbeIdle
  /\ SignalsIdle
  /\ BacktestIdle
  /\ TrackerIdle
  /\ IndexIdle
  /\ monitorLoop = enter_loop
  /\ ingestionLoop = enter_loop

monitor_cycle ==
  /\ monitorLoop.pc = "cycle"
  /\ \E outcome \in CycleOutcomes : monitorLoop' = end_cycle(monitorLoop, outcome)
  /\ UNCHANGED <<graphVars, probe, signalVars, backtestVars, trackerVars, indexVars, ingestionLoop>>

monitor_sleep ==
  /\ monitorLoop.pc = "sleep"
  /\ \E interrupted \in BOOLEAN : monitorLoop' = end_sleep(monitorLoop, interrupted)
  /\ UNCHANGED <<graphVars, probe, signalVars, backtestVars, trackerVars, indexVars, ingestionLoop>>

monitor_backoff ==
  /\ monitorLoop.pc = "backoff"
  /\ \E interrupted \in BOOLEAN : monitorLoop' = end_backoff(monitorLoop, interrupted)
  /\ UNCHANGED <<graphVars, probe, signalVars, backtestVars, trackerVars, indexVars, ingestionLoop>>

ingestion_cycle ==
  /\ ingestionLoop.pc = "cycle"
  /\ \E outcome \in CycleOutcomes : ingestionLoop' = end_cycle(ingestionLoop, outcome)
  /\ UNCHANGED <<graphVars, probe, signalVars, backtestVars, trackerVars, indexVars, monitorLoop>>

ingestion_sleep ==
  /\ ingestionLoop.pc = "sleep"
  /\ \E interrupted \in BOOLEAN : ingestionLoop' = end_sleep(ingestionLoop, interrupted)
  /\ UNCHANGED <<graphVars, probe, signalVars, backtestVars, trackerVars, indexVars, monitorLoop>>

ingestion_backoff ==
  /\ ingestionLoop.pc = "backoff"
  /\ \E interrupted \in BOOLEAN : ingestionLoop' = end_backoff(ingestionLoop, interrupted)
  /\ UNCHANGED <<graphVars, probe, signalVars, backtestVars, trackerVars, indexVars, monitorLoop>>

NextLoops ==
  \/ monitor_cycle \/ monitor_sleep \/ monitor_backoff
  \/ ingestion_cycle \/ ingestion_sleep \/ ingestion_backoff

\* A sleep returns, and a running cycle ends.
FairLoops ==
  /\ WF_vars(monitor_cycle) /\ WF_vars(monitor_sleep) /\ WF_vars(monitor_backoff)
  /\ WF_vars(ingestion_cycle) /\ WF_vars(ingestion_sleep) /\ WF_vars(ingestion_backoff)

SpecLoops == InitLoops /\ [][NextLoops]_vars /\ FairLoops

Ended(loop) == loop.pc \in {"stopped", "interrupted"}

\* An Exception leaves the loop in the back-off, a loop that ended was ended
\* by a keyboard interrupt, and one cycle at most is under way.
LoopSafe(loop) ==
  /\ loop.last = "Exception" => loop.pc = "backoff"
  /\ Ended(loop) => loop.last = "KeyboardInterrupt"
  /\ loop.in_progress <= 1
  /\ loop.in_progress = 1 <=> loop.pc = "cycle"

\* The back-off is left for the next cycle, or by a keyboard interrupt.
AfterBackoff(loop, next) ==
  (loop.pc = "backoff" /\ next # loop) =>
    \/ next.pc = "cycle" /\ next.in_progress = 1
    \/ Ended(next) /\ next.last = "KeyboardInterrupt"

\* C30: a cycle that raises an Exception does not end run_forever, of the
\* monitor or of the ingestion runner: the exception is caught and, after
\* the back-off sleep, another cycle begins; only a keyboard interrupt ends
\* the loop, and never is more than one cycle under way.
C30_LoopSurvivesExceptions ==
  /\ [](LoopSafe(monitorLoop) /\ LoopSafe(ingestionLoop))
  /\ [][AfterBackoff(monitorLoop, monitorLoop') /\ AfterBackoff(ingestionLoop, ingestionLoop')]_vars
  /\ (monitorLoop.pc = "backoff") ~> (monitorLoop.pc = "cycle" \/ Ended(monitorLoop))
  /\ (ingestionLoop.pc = "backoff") ~> (ingestionLoop.pc = "cycle" \/ Ended(ingestionLoop))

\* Both loops have caught an exception and begun another cycle.
C30_Witness ==
  /\ monitorLoop.pc = "cycle" /\ monitorLoop.last = "backed_off" /\ monitorLoop.caught >= 2
  /\ ingestionLoop.pc = "cycle" /\ ingestionLoop.last = "backed_off" /\ ingestionLoop.caught >= 1

(***************************************************************************)
(* The monitor cycle in steps (SpecMonitor): SignalMonitor.check under     *)
(* run_forever (signals.py), with the ResolutionTracker it polls           *)
(* (ingestion.py).  The tracker records and saves what it returns before   *)
(* check goes on to refresh_markets and to on_resolution.                  *)
(***************************************************************************)

\* pc is where the loop stands: "poll" (before check_new_resolutions),
\* "refresh" (before refresh_markets), "on_resolution" (in the for loop),
\* "sleep" (the cycle returned) or "backoff" (the cycle raised and the
\* Exception handler sleeps).  new_resolutions is what is left of the local
\* list of check; handed counts the on_resolution calls for every market.
Monitor(pc, new_resolutions, handed) == [op |-> "check", pc |-> pc, new_resolutions |-> new_resolutions, handed |-> handed]

InitMonitor ==
  /\ GraphInit
  /\ probe = ProbeIdle
  /\ IndexIdle
  /\ SignalsIdle
  /\ BacktestIdle
  /\ closedServed \in ClosedLists
  /\ tracked = <<>>
  /\ resolutionsFile = <<>>
  /\ reported = EmptyDict
  /\ firstStored = EmptyDict
  /\ lastPoll = NoCall
  /\ monitorLoop = Monitor("poll", <<>>, EmptyDict)
  /\ ingestionLoop = NoCall

\* new_resolutions = self.tracker.check_new_resolutions()
check_poll ==
  LET r == poll(tracked, <<>>, closedServed)
  IN /\ monitorLoop.pc = "poll"
     /\ tracked' = r.resolutions
     /\ resolutionsFile' = IF r.new_resolutions # <<>> THEN save_resolutions(r.resolutions)
                           ELSE resolutionsFile
     /\ reported' = count_reports(reported, r.new_resolutions)
     /\ firstStored' = note_first(firstStored, r.new_resolutions)
     /\ lastPoll' = [op |-> "check_new_resolutions", returned |-> r.new_resolutions,
                     observed |-> {closedServed[i].id : i \in 1..Len(closedServed)},
                     known_before |-> {tracked[i].market_id : i \in 1..Len(tracked)}]
     /\ monitorLoop' = Monitor(IF r.new_resolutions # <<>> THEN "refresh" ELSE "sleep",
                               r.new_resolutions, monitorLoop.handed)
     /\ UNCHANGED <<indexVars, graphVars, probe, signalVars, backtestVars, closedServed, ingestionLoop>>

\* if new_resolutions: self.engine.refresh_markets(); what it raises ends
\* the cycle in the Exception handler of run_forever, and the local list is
\* gone.
check_refresh ==
  /\ monitorLoop.pc = "refresh"
  /\ \E raised \in BOOLEAN :
       monitorLoop' = IF raised THEN Monitor("backoff", <<>>, monitorLoop.handed)
                      ELSE Monitor("on_resolution", monitorLoop.new_resolutions, monitorLoop.handed)
  /\ UNCHANGED <<indexVars, graphVars, probe, signalVars, backtestVars, trackerVars, ingestionLoop>>

\* for resolution in new_resolutions: self.engine.on_resolution(resolution);
\* the call is counted whether it returns or raises.
check_on_resolution ==
  /\ monitorLoop.pc = "on_resolution"
  /\ LET resolution == Head(monitorLoop.new_resolutions)
         rest == Tail(monitorLoop.new_resolutions)
         handed == DictSet(monitorLoop.handed, resolution.market_id,
                           DictGet(monitorLoop.handed, resolution.market_id, 0) + 1)
     IN \E raised \in BOOLEAN :
          monitorLoop' = IF raised THEN Monitor("backoff", <<>>, handed)
                         ELSE Monitor(IF rest = <<>> THEN "sleep" ELSE "on_resolution", rest, handed)
  /\ UNCHANGED <<indexVars, graphVars, probe, signalVars, backtestVars, trackerVars, ingestionLoop>>

\* time.sleep(interval), or time.sleep(60) in the handler, returns and the
\* next cycle begins.
check_again ==
  /\ monitorLoop.pc \in {"sleep", "backoff"}
  /\ monitorLoop' = Monitor("poll", <<>>, monitorLoop.handed)
  /\ UNCHANGED <<indexVars, graphVars, probe, signalVars, backtestVars, trackerVars, ingestionLoop>>

NextMonitor == check_poll \/ check_refresh \/ check_on_resolution \/ check_again \/ serve_closed

\* Every step of the loop is taken in the end; the API is under no
\* obligation.
FairMonitor ==
  /\ WF_vars(check_poll) /\ WF_vars(check_refresh)
  /\ WF_vars(check_on_resolution) /\ WF_vars(check_again)

SpecMonitor == InitMonitor /\ [][NextMonitor]_vars /\ FairMonitor

ClosedIds == {market.id : market \in ClosedMarkets}

handed_to_on_resolution(id) == DictGet(monitorLoop.handed, id, 0)

\* C31: every resolution the tracker records as new is handed to
\* on_resolution exactly once over the life of the monitor loop, also when
\* the cycle that recorded it raises partway and the loop goes on to the
\* next cycle: none is handed twice, and none stays without its call.
C31_HandedExactlyOnce ==
  /\ [](\A id \in ClosedIds : handed_to_on_resolution(id) <= 1)
  /\ \A id \in ClosedIds : is_known(tracked, id) ~> (handed_to_on_resolution(id) = 1)

(***************************************************************************)
(* build_edges on the same markets in another list order (SpecCalls)       *)
(***************************************************************************)

\* The similarities behind the candidate pairs of the call, by unordered pair.
related_of(related_pairs) ==
  [pair \in {{related_pairs[k].market_i, related_pairs[k].market_j} : k \in 1..Len(related_pairs)} |->
     related_pairs[CHOOSE k \in 1..Len(related_pairs) :
                     {related_pairs[k].market_i, related_pairs[k].market_j} = pair].similarity]

\* The directed pairs of the edges build_edges makes of the markets of the
\* call when they come in the order of the list given.
directed_edges(markets) ==
  LET built == build_edges(markets, probe.resolutions, related_of(probe.related_pairs)).edges
  IN  {<<built[k].from_market_id, built[k].to_market_id>> : k \in 1..Len(built)}

\* C32: for a candidate pair with neither market resolved build_edges picks
\* leader and follower by a rule on the pair itself, so the same two markets
\* give the same directed edge in whatever order the list of markets holds
\* them.
C32_LeaderIndependentOfListOrder ==
  probe.op = "build_edges" =>
    \A markets \in BuildMarketLists :
      Range(markets) = Range(probe.markets) =>
        \A k \in 1..Len(probe.result) :
          (~IsResolved(probe.result[k].from_market_id) /\ ~IsResolved(probe.result[k].to_market_id))
            => <<probe.result[k].from_market_id, probe.result[k].to_market_id>> \in directed_edges(markets)

(***************************************************************************)
(* The paginated fetch loops (SpecFetch): PolymarketClient.fetch_markets,  *)
(* fetch_closed_markets, _fetch_batch and _parse_market (client.py) over   *)
(* safe_get_json (utils/http.py); utils/client.py holds the same loops as  *)
(* functions.  probe is the call under way.                                *)
(***************************************************************************)

JsonNull == [kind |-> "null", text |-> "null"]

\* A JSON integer beyond the range of a float (a 1 followed by 400 zeros).
HugeInteger == JsonNumber("1e400 as an integer")

Raised(exception) == [raised |-> exception]

Returned(value) == [raised |-> "none", value |-> value]

\* The numbers the records spell, as float reads them.
Floats == ("0" :> 0) @@ ("5000" :> 5000) @@ ("0.9" :> 90) @@ ("0.1" :> 10)

\* float(v) of a JSON scalar
py_float(v) ==
  IF v.kind = "null" THEN Raised("TypeError")
  ELSE IF v.text \in DOMAIN Floats THEN Returned(Floats[v.text])
  ELSE IF v.kind = "number" THEN Raised("OverflowError")
  ELSE Raised("ValueError")

\* The JSON documents the price strings spell; json.loads raises a
\* JSONDecodeError, which is a ValueError, on any other text.
JsonDocs == ("[0.9, 0.1]" :> <<JsonNumber("0.9"), JsonNumber("0.1")>>) @@ ("[1e400 as an integer]" :> <<HugeInteger>>)

json_loads(text) == IF text \in DOMAIN JsonDocs THEN Returned(JsonDocs[text]) ELSE Raised("ValueError")

\* [float(p) for p in prices]
RECURSIVE float_all(_)
float_all(values) ==
  IF values = <<>> THEN Returned(<<>>)
  ELSE LET first == py_float(Head(values))
           rest == float_all(Tail(values))
       IN  IF first.raised # "none" THEN first
           ELSE IF rest.raised # "none" THEN rest
           ELSE Returned(<<first.value>> \o rest.value)

\* The body of the try block of _parse_market: the market, or what is raised.
parse_try(data) ==
  IF data.kind # "object" THEN Raised("AttributeError")
  ELSE LET loaded == json_loads(data.outcomePrices.text)
           prices == IF loaded.raised # "none" THEN loaded ELSE float_all(loaded.value)
           volume == py_float(data.volume)
           liquidity == py_float(data.liquidity)
       IN  IF prices.raised # "none" THEN prices
           ELSE IF volume.raised # "none" THEN volume
           ELSE IF liquidity.raised # "none" THEN liquidity
           ELSE Returned(Market(data.id, prices.value, volume.value, liquidity.value, data.endDate))

\* _parse_market(data): except (ValueError, KeyError, TypeError) returns
\* None; anything else that is raised leaves the function.
_parse_market(data) ==
  LET tried == parse_try(data)
  IN  IF tried.raised = "none" THEN Returned(Some(tried.value))
      ELSE IF tried.raised \in {"ValueError", "KeyError", "TypeError"} THEN Returned(None)
      ELSE tried

\* What a page request ends in: a JSON body, or one of the failures that
\* safe_get_json handles once the retries of the session are used up.
Failures == {"HTTPError", "RequestException", "ValueError"}

Failed(kind) == [kind |-> kind]

Body(data) == [kind |-> "json", data |-> data]

\* A record of the API: a JSON object with the fields _parse_market reads.
Record(id, outcomePrices, volume, liquidity) == [kind |-> "object", id |-> id, outcomePrices |-> JsonString(outcomePrices), volume |-> volume, liquidity |-> liquidity, endDate |-> "2024-12-31T23:59:59Z"]

\* A well-formed record; one below the liquidity filter; a price string that
\* is no JSON; a volume of null; a volume beyond the float range; a record
\* that is null.
Records ==
  {Record("m1", "[0.9, 0.1]", JsonString("5000"), JsonNumber("5000")),
   Record("m2", "[0.9, 0.1]", JsonNumber("5000"), JsonNumber("0")),
   Record("m3", "not json", JsonNumber("5000"), JsonNumber("5000")),
   Record("m4", "[0.9, 0.1]", JsonNull, JsonNumber("5000")),
   Record("m5", "[0.9, 0.1]", HugeInteger, JsonNumber("5000")),
   JsonNull}

\* Mutant of safe_get_json: a failed request is answered with a body.
safe_get_json_error_body(answer) == IF answer.kind = "json" THEN Some(answer.data) ELSE Some(<<Record("m1", "[0.9, 0.1]", JsonString("5000"), JsonNumber("5000"))>>)

\* safe_get_json(session, url, ...): the parsed body, or None on an
\* HTTPError, a RequestException or a ValueError.
safe_get_json(answer) == IF answer.kind \in Failures THEN None ELSE Some(answer.data)

\* _fetch_batch: return data if data else []
_fetch_batch(answer) ==
  LET data == safe_get_json(answer)
  IN  IF data.some /\ data.val # <<>> THEN data.val ELSE <<>>

\* Records per page (limit), pages of fetch_closed_markets (max_pages), and
\* the requests of one call the model counts and keeps the markets of.
PageLimit == 2

MaxPages == 2

MaxRequests == 3

\* limit, min_liquidity, min_volume and max_pages of the calls.
FetchArgs == [limit |-> PageLimit, min_liquidity |-> MIN_VOLUME, min_volume |-> MIN_VOLUME, max_pages |-> MaxPages]

\* The for loop over a batch: the markets appended, or what _parse_market
\* let through.
RECURSIVE parse_batch(_, _)
parse_batch(batch, closed) ==
  IF batch = <<>> THEN Returned(<<>>)
  ELSE LET market == _parse_market(Head(batch))
           rest == parse_batch(Tail(batch), closed)
       IN  IF market.raised # "none" THEN market
           ELSE IF rest.raised # "none" THEN rest
           ELSE IF market.value.some /\ (closed \/ (market.value.val.liquidity >= FetchArgs.min_liquidity
                                                     /\ market.value.val.volume >= FetchArgs.min_volume))
             THEN Returned(<<market.value.val>> \o rest.value)
           ELSE rest

\* A fetch call: pc is "request" (before a page request), "returned" or
\* "raised" (with the exception in raised); requests counts the page
\* requests made, up to MaxRequests, and odd tells whether their number is
\* odd; markets is the list accumulated, of the first MaxRequests pages;
\* answer is what the last request ended in and batch_len the length of its
\* batch.
FetchCall(op, pc, requests, odd, markets, answer, batch_len, raised) == [op |-> op, pc |-> pc, requests |-> requests, odd |-> odd, markets |-> markets, answer |-> answer, batch_len |-> batch_len, raised |-> raised]

\* One turn of the loop of fetch_markets (while True) or of
\* fetch_closed_markets (for _ in range(max_pages)) on the answer to its
\* page request.
fetch_page(call, answer) ==
  LET closed == call.op = "fetch_closed_markets"
      batch == _fetch_batch(answer)
      parsed == parse_batch(batch, closed)
      counted == call.requests < MaxRequests
      requests == IF counted THEN call.requests + 1 ELSE call.requests
      markets == IF parsed.raised = "none" /\ counted THEN call.markets \o parsed.value ELSE call.markets
      pc == IF batch = <<>> THEN "returned"
            ELSE IF parsed.raised # "none" THEN "raised"
            ELSE IF Len(batch) < FetchArgs.limit THEN "returned"
            ELSE IF closed /\ requests >= FetchArgs.max_pages THEN "returned"
            ELSE "request"
  IN  FetchCall(call.op, pc, requests, ~call.odd, markets, answer.kind, Len(batch), IF batch = <<>> THEN "none" ELSE parsed.raised)

\* What the API can answer to a page request: a failure, or a body of up to
\* limit records.
Answers == {Failed(kind) : kind \in Failures} \cup {Body(data) : data \in SeqsUpTo(Records, PageLimit)}

\* client.fetch_markets() is called
call_fetch_markets ==
  /\ probe = ProbeIdle
  /\ probe' = FetchCall("fetch_markets", "request", 0, FALSE, <<>>, "none", 0, "none")
  /\ UNCHANGED <<indexVars, loopVars, graphVars, signalVars, backtestVars, trackerVars>>

\* client.fetch_closed_markets() is called
call_fetch_closed_markets ==
  /\ probe = ProbeIdle
  /\ probe' = FetchCall("fetch_closed_markets", "request", 0, FALSE, <<>>, "none", 0, "none")
  /\ UNCHANGED <<indexVars, loopVars, graphVars, signalVars, backtestVars, trackerVars>>

\* The page request of the call under way is answered and the loop takes
\* its turn.
page_answered ==
  /\ probe.op \in {"fetch_markets", "fetch_closed_markets"}
  /\ probe.pc = "request"
  /\ \E answer \in Answers : probe' = fetch_page(probe, answer)
  /\ UNCHANGED <<indexVars, loopVars, graphVars, signalVars, backtestVars, trackerVars>>

NextFetch == call_fetch_markets \/ call_fetch_closed_markets \/ page_answered

\* Every page request is answered: the session has a timeout.
FairFetch == WF_vars(page_answered)

SpecFetch == Init /\ [][NextFetch]_vars /\ FairFetch

Fetching == probe.op \in {"fetch_markets", "fetch_closed_markets"}

\* C33: a malformed record is not fatal to its batch: a record whose price
\* list or numeric fields cannot be parsed is skipped by the fetch loop, the
\* records around it are still processed, and no exception leaves the fetch.
C33_MalformedRecordSkipped == Fetching => probe.pc # "raised"

\* A page request that failed ends the call: it returns the list it had.
FailedPageEndsCall ==
  (Fetching /\ probe.pc = "request" /\ probe'.answer \in Failures)
    => (probe'.pc = "returned" /\ probe'.raised = "none" /\ probe'.markets = probe.markets)

\* C34: when a page request fails with an HTTP error, a request error or an
\* invalid JSON body, safe_get_json returns None, and fetch_markets and
\* fetch_closed_markets stop paging and return the markets accumulated from
\* the earlier pages instead of raising.
C34_FailedPageReturnsPartial ==
  /\ [](\A kind \in Failures : safe_get_json(Failed(kind)) = None)
  /\ [][FailedPageEndsCall]_vars

\* fetch_markets has returned the markets of its first page after its second
\* request failed.
C34_Witness ==
  /\ probe.op = "fetch_markets"
  /\ probe.pc = "returned"
  /\ probe.answer \in Failures
  /\ probe.requests = 2
  /\ probe.markets # <<>>

\* A page that is empty, failed or shorter than limit is the last one.
ShortPageEndsCall ==
  (Fetching /\ probe.pc = "request" /\ (probe'.answer \in Failures \/ probe'.batch_len < FetchArgs.limit))
    => probe'.pc # "request"

\* C39: the fetch loops terminate: fetch_closed_markets makes at most
\* max_pages page requests, both loops stop at the first page that is
\* empty, failed or shorter than limit, and every fetch call comes to its
\* end whatever the API answers.
C39_FetchTerminates ==
  /\ [](probe.op = "fetch_closed_markets" => probe.requests <= FetchArgs.max_pages)
  /\ [][ShortPageEndsCall]_vars
  /\ (Fetching /\ probe.pc = "request") ~> (Fetching /\ probe.pc \in {"returned", "raised"})

(***************************************************************************)
(* Persistence and keys of the EventGraph (checked under Spec)             *)
(***************************************************************************)

\* A graph and the graph a new EventGraph loads from the document give the
\* same edges and the same get_outgoing / get_incoming answers.
RoundTrip(g, doc) ==
  LET loaded == load_doc(doc)
  IN  /\ get_all(loaded) = get_all(g)
      /\ \A m \in GraphIds :
           /\ get_outgoing(loaded, m) = get_outgoing(g, m)
           /\ get_incoming(loaded, m) = get_incoming(g, m)

\* C35: the persisted graph tracks the graph in memory: an operation that
\* writes the document (add_edge, add_edges, clear) leaves in it exactly the
\* edges of the edge map, and a new EventGraph constructed from that document
\* has the same edges and gives the same get_outgoing and get_incoming
\* answers for every market id.
C35_DocumentTracksGraph ==
  /\ [][graphFile' # graphFile => graphFile' = save_doc(ThisGraph')]_vars
  /\ [](graphFile = save_doc(ThisGraph) => RoundTrip(ThisGraph, graphFile))

\* The edge stored under a key that stays keeps its ordered pair.
SamePairUnderKey ==
  \A key \in DOMAIN edges \cap DOMAIN edges' :
    /\ edges'[key].from_market_id = edges[key].from_market_id
    /\ edges'[key].to_market_id = edges[key].to_market_id

\* C38: edges of different ordered (from_market_id, to_market_id) pairs never
\* overwrite each other: the key of a stored edge is the key of no other
\* ordered pair, and an add replaces a stored edge only when leader id and
\* follower id are both equal to those of the stored edge.
C38_DistinctPairsKeepApart ==
  /\ [](\A key \in DOMAIN edges : \A p \in GraphPairs :
          _key(p[1], p[2]) = key => (p[1] = edges[key].from_market_id /\ p[2] = edges[key].to_market_id))
  /\ [][SamePairUnderKey]_vars

(***************************************************************************)
(* Persistence of the signal history (checked under SpecSignals)           *)
(***************************************************************************)

\* C36: the signal history survives restarts: after an on_resolution call
\* that emitted a signal the signal file holds exactly the log in memory and
\* begins with the history persisted before the call, and a SignalEngine
\* constructed from the file starts with a log equal to the persisted one.
C36_HistorySurvivesRestart ==
  /\ (lastCall.op = "on_resolution" /\ lastCall.returned # <<>>) =>
       /\ signalsFile = save_signals(signalLog)
       /\ IsPrefix(save_signals(lastCall.log_before), signalsFile)
  /\ lastCall.op = "new_engine" =>
       /\ save_signals(signalLog) = signalsFile
       /\ Len(signalLog) = Len(signalsFile)

\* An engine was constructed from a file of two signals, written by two
\* emissions.
C36_Witness ==
  /\ lastCall.op = "new_engine"
  /\ Len(signalsFile) = 2
  /\ signalsFile[1].leader_outcome # signalsFile[2].leader_outcome

(***************************************************************************)
(* The read-only consumers of the graph (SpecConsumers): a SignalEngine    *)
(* and a BacktestEngine over one stored graph.                             *)
(***************************************************************************)

\* The chain of valid edges between the markets with outcomes, and behind it
\* the edges from the leader whose resolution the signal engine is given.
ConsumerGraphs ==
  {BtChain({}) \o <<EventEdge(SigLeader, SigFollower, 90, ConditionalDelta(15, 3600, 5), NoDelta, 85)>> \o e2 :
     e2 \in SigEdgeChoices2}

InitConsumers ==
  /\ \E stored \in ConsumerGraphs :
       LET g == index_all(EmptyGraph, stored)
       IN /\ edges = g.edges
          /\ edgeKeys = g.keys
          /\ outgoing = g.outgoing
          /\ incoming = g.incoming
          /\ graphFile = save_doc(g)
          /\ lastAdded = note_added(EmptyDict, stored)
  /\ probe = ProbeIdle
  /\ IndexIdle
  /\ LoopIdle
  /\ TrackerIdle
  /\ \E liquidity \in {500, 10000} :
       upstream = <<Market(SigFollower, <<50, 50>>, 10000, 10000, "2024-12-31"),
                    Market(SigFollower2, <<50, 50>>, 10000, liquidity, "2024-12-31")>>
  /\ marketsCache = EmptyDict
  /\ signalLog = <<>>
  /\ signalsFile = <<>>
  /\ lastCall = NoCall
  /\ outcomes = BtBase
  /\ hashOrder \in HashOrders
  /\ rng = seed(SEED)
  /\ lastRun = NoCall

NextConsumers == on_resolution \/ run \/ refresh_markets

SpecConsumers == InitConsumers /\ [][NextConsumers]_vars

\* The step is an on_resolution call or a run of the backtest.
ConsumerCall ==
  \/ lastCall' # lastCall /\ lastCall'.op = "on_resolution"
  \/ <<lastRun, rng>>' # <<lastRun, rng>> /\ lastRun'.op = "run"

====
